---- MODULE Spec2Model ----
(***************************************************************************)
(* A model of entropy-map: the fingerprinting minimal perfect hash         *)
(* function (src/src/mphf.rs), the rank index over its bit vector          *)
(* (src/src/rank.rs), the dictionary-packed map (src/src/map_with_dict.rs) *)
(* and the bit-packed map (src/src/map_with_dict_bitpacked.rs).            *)
(*                                                                         *)
(* Machine integers.  TLC's integers are 32-bit, so                        *)
(*   - a number that takes part in arithmetic (a hash, a murmur state) is  *)
(*     a little-endian sequence of bytes: 4 bytes for u32, 8 for u64, 16   *)
(*     for u128; wrapping multiplication is schoolbook multiplication      *)
(*     truncated to the width;                                             *)
(*   - a word that takes part in bitwise logic only (a 64-bit segment of a *)
(*     bit plane, a 128-bit rank entry, a u32 value to be bit-packed) is   *)
(*     the set of the positions of its one-bits: & is \cap, | is \cup,     *)
(*     count_ones is Cardinality.                                          *)
(* A Rust slice is a sequence; element i of the slice is s[i + 1].         *)
(***************************************************************************)
EXTENDS Integers, Sequences, FiniteSets, TLC

\* ------------------------------------------------------------- helpers

Pow2(n) == 2 ^ n

Min(a, b) == IF a < b THEN a ELSE b

DivCeil(a, b) == (a + b - 1) \div b

RECURSIVE Gcd(_, _)
Gcd(a, b) == IF b = 0 THEN a ELSE Gcd(b, a % b)

RECURSIVE SumTo(_, _, _)
\* f[lo] + ... + f[hi]
SumTo(f, lo, hi) == IF lo > hi THEN 0 ELSE f[lo] + SumTo(f, lo + 1, hi)

\* element i (0-based) of a slice
At(s, i) == s[i + 1]

\* the slice with element i (0-based) replaced
Put(s, i, v) == [s EXCEPT ![i + 1] = v]

Range(s) == {s[i] : i \in DOMAIN s}

\* the sequence <<f[1], ..., f[n]>> of a function f on 1..n, its elements
\* computed once, when the sequence is made
Elems(f) == f \o <<>>

\* n copies of v
Repeat(v, n) == Elems([i \in 1..n |-> v])

\* ------------------------------------------------- byte-limb arithmetic

RECURSIVE XorNat(_, _)
\* bitwise exclusive or of two naturals
XorNat(a, b) ==
  IF a = 0 THEN b
  ELSE IF b = 0 THEN a
  ELSE ((a + b) % 2) + 2 * XorNat(a \div 2, b \div 2)

\* n as a little-endian number of w bytes (n < 2^31)
FromNat(n, w) == Elems([i \in 1..w |-> IF i <= 4 THEN (n \div (256 ^ (i - 1))) % 256 ELSE 0])

\* the value of a byte sequence (the caller knows it is below 2^31)
ToNat(x) == SumTo([i \in 1..Len(x) |-> x[i] * 256 ^ (i - 1)], 1, Len(x))

\* `x as uW`: truncate or zero-extend to w bytes
Resize(x, w) == Elems([i \in 1..w |-> IF i <= Len(x) THEN x[i] ELSE 0])

XorBytes(x, y) == Elems([i \in 1..Len(x) |-> XorNat(x[i], y[i])])

\* x >> k on a number of Len(x) bytes
ShrBytes(x, k) ==
  LET q == k \div 8
      r == k % 8
      b(i) == IF i <= Len(x) THEN x[i] ELSE 0
  IN  Elems([i \in 1..Len(x) |-> (b(i + q) \div Pow2(r)) + (b(i + q + 1) % Pow2(r)) * Pow2(8 - r)])

RECURSIVE MulCarry(_, _, _, _, _)
MulCarry(x, y, k, carry, w) ==
  IF k > w THEN <<>>
  ELSE LET t == carry + SumTo([i \in 1..k |-> x[i] * y[k + 1 - i]], 1, k)
       IN  <<t % 256>> \o MulCarry(x, y, k + 1, t \div 256, w)

\* x.wrapping_mul(y) for two numbers of the same width
WrappingMul(x, y) == MulCarry(x, y, 1, 0, Len(x))

\* ------------------------------------------------------ mphf.rs: hashing

\* 0x5851f42d4c957f2d
HashMulConst == <<45, 127, 149, 76, 45, 244, 81, 88, 0, 0, 0, 0, 0, 0, 0, 0>>

\* 0x85ebca6b
Murmur1 == <<107, 202, 235, 133>>

\* 0xc2b2ae35
Murmur2 == <<53, 174, 178, 194>>

\* ((x & 0xFFFFFFFFFFFFFFFF) as u64) ^ ((x >> 64) as u64) for a u128 x
FoldU128(x) == XorBytes(Resize(x, 8), Resize(ShrBytes(x, 64), 8))

hash_with_seed(hash, seed) ==
  FoldU128(WrappingMul(XorBytes(Resize(hash, 16), FromNat(seed, 16)), HashMulConst))

\* fastmod32(x, n) for a u32 x (4 bytes) and a natural n
fastmod32(x, n) ==
  ToNat(Resize(ShrBytes(WrappingMul(Resize(x, 8), FromNat(n, 8)), 32), 4))

\* x ^= x >> k
XorShift(x, k) == XorBytes(x, ShrBytes(x, k))

\* the avalanche of bit_index_for_seed: the u32 handed to fastmod32
murmur_finalize(hash, group_seed) ==
  XorShift(
    WrappingMul(
      XorShift(
        WrappingMul(
          XorShift(XorBytes(Resize(hash, 4), FromNat(group_seed, 4)), 16),
          Murmur1),
        13),
      Murmur2),
    16)

bit_index_for_seed(b, hash, group_seed, groups_before) ==
  groups_before * b + fastmod32(murmur_finalize(hash, group_seed), b)

\* ------------------------------------------------ words as sets of bits

\* u64::MAX
U64_MAX == 0..63

\* (1 << n) - 1, and u64::MAX >> (64 - n)
LowMask(n) == 0..(n - 1)

\* w >> k
Shr(w, k) == {i - k : i \in {j \in w : j >= k}}

\* w << k in a word of `width` bits
Shl(w, k, width) == {i + k : i \in {j \in w : j + k < width}}

\* !w for a u64
Not64(w) == U64_MAX \ w

count_ones(w) == Cardinality(w)

\* the word at index i of a buffer read without a bounds check: past the end
\* of the buffer it is whatever the neighbouring memory holds (oob)
WordAt(buf, i, oob) == IF i < Len(buf) THEN At(buf, i) ELSE oob

\* the matching unchecked store; a store past the end does not change buf
SetWord(buf, i, w) == IF i < Len(buf) THEN Put(buf, i, w) ELSE buf

\* --------------------------------------------- mphf.rs: level construction

level_size_groups_segments(b, size) ==
  LET lcm_value == (b * 64) \div Gcd(b, 64)
      adjusted_size == DivCeil(size, lcm_value) * lcm_value
  IN  <<adjusted_size \div b, adjusted_size \div 64>>

\* lines 166-169 and 185-187: chunks_exact_mut(3) visits the full chunks only
InFullChunk(buf, i) == i \div 3 < Len(buf) \div 3

ResetGroupBits(group_bits) ==
  Elems([i \in 1..Len(group_bits) |->
     IF InFullChunk(group_bits, i - 1) /\ (i - 1) % 3 \in {0, 1} THEN {} ELSE group_bits[i]])

\* lines 176-181: the bit of one hash is set in word 0 of its segment, and in
\* word 1 if word 0 held it already
SetBit(group_bits, bit_idx) ==
  LET mask == {bit_idx % 64}
      idx == (bit_idx \div 64) * 3
      bits0 == At(group_bits, idx)
      bits1 == At(group_bits, idx + 1)
  IN  Put(Put(group_bits, idx + 1, bits1 \cup (bits0 \cap mask)), idx, bits0 \cup mask)

\* lines 174-175: the bit index of a level hash under group_seed
SeedBitIndex(b, groups, group_seed, level_hash) ==
  bit_index_for_seed(b, level_hash, group_seed, fastmod32(Resize(level_hash, 4), groups))

RECURSIVE SetHashBits(_, _, _, _, _, _, _)
\* lines 172-182, from hash number k on
SetHashBits(b, level, groups, group_seed, hashes, group_bits, k) ==
  IF k > Len(hashes) THEN group_bits
  ELSE SetHashBits(b, level, groups, group_seed, hashes,
                   SetBit(group_bits,
                          SeedBitIndex(b, groups, group_seed, hash_with_seed(hashes[k], level))),
                   k + 1)

\* FilterCollided without the filter: the bits two hashes fell on stay set
FilterCollidedKeepsAll(group_bits) == group_bits

\* lines 185-187
FilterCollided(group_bits) ==
  Elems([i \in 1..Len(group_bits) |->
     IF InFullChunk(group_bits, i - 1) /\ (i - 1) % 3 = 0
     THEN group_bits[i] \cap Not64(group_bits[i + 1])
     ELSE group_bits[i]])

\* UpdateBestGroup replacing the best seed also on as many ones
UpdateBestGroupOnTie(b, group_idx, group_seed, group_bits, best_group_seeds, oob) ==
  LET bit_idx == group_idx * b
      bit_pos == bit_idx % 64
      idx == (bit_idx \div 64) * 3
      bits(j) == WordAt(group_bits, idx + j, oob)
      bits_1 == Min(b, 64 - bit_pos)
      bits_2 == b - bits_1
      mask_1 == Shr(U64_MAX, 64 - bits_1)
      mask_2 == LowMask(bits_2)
      new_bits_1 == Shr(bits(0), bit_pos) \cap mask_1
      new_bits_2 == bits(3) \cap mask_2
      new_ones == count_ones(new_bits_1) + count_ones(new_bits_2)
      best_bits_1 == Shr(bits(2), bit_pos) \cap mask_1
      best_bits_2 == bits(5) \cap mask_2
      best_ones == count_ones(best_bits_1) + count_ones(best_bits_2)
      word2 == (bits(2) \cap Not64(Shl(mask_1, bit_pos, 64))) \cup Shl(new_bits_1, bit_pos, 64)
      word5 == (bits(5) \cap Not64(mask_2)) \cup new_bits_2
  IN  IF new_ones >= best_ones
      THEN <<SetWord(SetWord(group_bits, idx + 2, word2), idx + 5, word5),
             Put(best_group_seeds, group_idx, group_seed)>>
      ELSE <<group_bits, best_group_seeds>>

\* lines 190-204: the indexes in group_bits of the words that the update of
\* one group reads, bits[0], bits[2], bits[3] and bits[5] of idx..idx + 6
GroupWordsRead(b, group_idx) ==
  {((group_idx * b) \div 64) * 3 + j : j \in {0, 2, 3, 5}}

\* lines 209-214: the indexes of the words it stores when the seed is better
GroupWordsWritten(b, group_idx) ==
  {((group_idx * b) \div 64) * 3 + j : j \in {2, 5}}

\* lines 191-218 for one group: the new <<group_bits, best_group_seeds>>
UpdateBestGroup(b, group_idx, group_seed, group_bits, best_group_seeds, oob) ==
  LET bit_idx == group_idx * b
      bit_pos == bit_idx % 64
      idx == (bit_idx \div 64) * 3
      bits(j) == WordAt(group_bits, idx + j, oob)
      bits_1 == Min(b, 64 - bit_pos)
      bits_2 == b - bits_1
      mask_1 == Shr(U64_MAX, 64 - bits_1)
      mask_2 == LowMask(bits_2)
      new_bits_1 == Shr(bits(0), bit_pos) \cap mask_1
      new_bits_2 == bits(3) \cap mask_2
      new_ones == count_ones(new_bits_1) + count_ones(new_bits_2)
      best_bits_1 == Shr(bits(2), bit_pos) \cap mask_1
      best_bits_2 == bits(5) \cap mask_2
      best_ones == count_ones(best_bits_1) + count_ones(best_bits_2)
      word2 == (bits(2) \cap Not64(Shl(mask_1, bit_pos, 64))) \cup Shl(new_bits_1, bit_pos, 64)
      word5 == (bits(5) \cap Not64(mask_2)) \cup new_bits_2
  IN  IF new_ones > best_ones
      THEN <<SetWord(SetWord(group_bits, idx + 2, word2), idx + 5, word5),
             Put(best_group_seeds, group_idx, group_seed)>>
      ELSE <<group_bits, best_group_seeds>>

RECURSIVE UpdateBestGroups(_, _, _, _, _)
\* lines 190-219, from group number group_idx on; bufs is the pair
\* <<group_bits, best_group_seeds>>
UpdateBestGroups(b, group_idx, group_seed, bufs, oob) ==
  IF group_idx >= Len(bufs[2]) THEN bufs
  ELSE UpdateBestGroups(b, group_idx + 1, group_seed,
                        UpdateBestGroup(b, group_idx, group_seed, bufs[1], bufs[2], oob), oob)

update_group_bits_with_seed(b, level, groups, group_seed, hashes, group_bits, best_group_seeds, oob) ==
  UpdateBestGroups(b, 0, group_seed,
     <<FilterCollided(SetHashBits(b, level, groups, group_seed, hashes,
                                  ResetGroupBits(group_bits), 1)),
       best_group_seeds>>,
     oob)

RECURSIVE TrySeeds(_, _, _, _, _, _, _, _)
\* lines 117-126, from seed number group_seed on; bufs is the pair
\* <<group_bits, best_group_seeds>>
TrySeeds(b, level, groups, group_seed, max_group_seed, hashes, bufs, oob) ==
  IF group_seed >= max_group_seed THEN bufs
  ELSE TrySeeds(b, level, groups, group_seed + 1, max_group_seed, hashes,
                update_group_bits_with_seed(b, level, groups, group_seed, hashes,
                                            bufs[1], bufs[2], oob),
                oob)

\* line 129
BestGroupBits(group_bits) ==
  Elems([c \in 1..(Len(group_bits) \div 3) |-> group_bits[3 * (c - 1) + 3]])

\* line 137: the bit is clear in best_group_bits
BitClear(best_group_bits, bit_idx) ==
  (bit_idx % 64) \notin At(best_group_bits, bit_idx \div 64)

\* lines 134-136: the bit index of a level hash under the seed of its group
BestBitIndex(b, level_hash, best_group_seeds, group_idx) ==
  bit_index_for_seed(b, level_hash, At(best_group_seeds, group_idx), group_idx)

\* lines 133-137 for a level hash
RetainedLevelHash(b, groups, best_group_bits, best_group_seeds, level_hash) ==
  BitClear(best_group_bits,
           BestBitIndex(b, level_hash, best_group_seeds, fastmod32(Resize(level_hash, 4), groups)))

\* Retained looking at the bit the hash falls on under seed 0
RetainedUnderSeedZero(b, level, groups, best_group_bits, best_group_seeds, hash) ==
  BitClear(best_group_bits,
           bit_index_for_seed(b, hash_with_seed(hash, level), 0,
                              fastmod32(Resize(hash_with_seed(hash, level), 4), groups)))

\* the predicate of hashes.retain, lines 132-138
Retained(b, level, groups, best_group_bits, best_group_seeds, hash) ==
  RetainedLevelHash(b, groups, best_group_bits, best_group_seeds, hash_with_seed(hash, level))

RECURSIVE ExcessBits(_)
\* by how many bits n is longer than the 24-bit significand of an f32
ExcessBits(n) == IF n < Pow2(24) THEN 0 ELSE 1 + ExcessBits(n \div 2)

\* a natural rounded to the nearest f32, ties to the even significand
RoundTo(n, unit) ==
  IF 2 * (n % unit) < unit THEN (n \div unit) * unit
  ELSE IF 2 * (n % unit) > unit THEN (n \div unit + 1) * unit
  ELSE (n \div unit + ((n \div unit) % 2)) * unit

\* `n as f32`
RoundF32(n) == RoundTo(n, Pow2(ExcessBits(n)))

\* line 104: ((hashes.len() as f32) * gamma).ceil() as usize.  gamma is the
\* f32 gamma[1] / gamma[2] with gamma[2] a power of two, so the f32 product is
\* the product of the numerators, rounded, over gamma[2]
LevelSize(len, gamma) == DivCeil(RoundF32(RoundF32(len) * gamma[1]), gamma[2])

\* RetainHashes dropping the first hash whatever its bit is
RetainHashesAfterFirst(b, level, groups, hashes, best_group_bits, best_group_seeds) ==
  <<best_group_bits, best_group_seeds,
    SelectSeq(Tail(hashes),
              LAMBDA h : Retained(b, level, groups, best_group_bits, best_group_seeds, h))>>

\* lines 132-140: <<best_group_bits, best_group_seeds, the hashes retained>>
RetainHashes(b, level, groups, hashes, best_group_bits, best_group_seeds) ==
  <<best_group_bits, best_group_seeds,
    SelectSeq(hashes, LAMBDA h : Retained(b, level, groups, best_group_bits, best_group_seeds, h))>>

\* lines 129-140 on the buffers <<group_bits, best_group_seeds>> the seeds left
LevelOf(b, level, groups, hashes, bufs) ==
  RetainHashes(b, level, groups, hashes, BestGroupBits(bufs[1]), bufs[2])

\* lines 105-140 for gs = <<groups, segments>>
BuildGroups(b, s, level, hashes, gs, oob) ==
  LevelOf(b, level, gs[1], hashes,
          TrySeeds(b, level, gs[1], 0, Pow2(s), hashes,
                   <<Repeat({}, 3 * gs[2]), Repeat(0, gs[1])>>, oob))

\* <<level_group_bits, level_group_seeds, the hashes left>>
build_level(b, s, level, hashes, gamma, oob) ==
  BuildGroups(b, s, level, hashes,
              level_size_groups_segments(b, LevelSize(Len(hashes), gamma)), oob)

\* ------------------------------------------------------------- rank.rs

L2_BIT_SIZE == 512

L1_BIT_SIZE == 8 * L2_BIT_SIZE

\* Option<T>: None is the empty sequence, Some(x) the sequence <<x>>
None == <<>>

Some(x) == <<x>>

\* `n as u128` (or any width above 31 bits) for a natural n
BitsOfNat(n) == {i \in 0..30 : (n \div Pow2(i)) % 2 = 1}

RECURSIVE NatOfBits(_)
\* `w as usize`
NatOfBits(w) ==
  IF w = {} THEN 0 ELSE LET i == CHOOSE j \in w : TRUE IN Pow2(i) + NatOfBits(w \ {i})

RECURSIVE AddCarry(_, _, _, _, _)
\* bits i and up of a + b, given the carry into bit i
AddCarry(a, b, i, carry, width) ==
  IF i >= width THEN {}
  ELSE IF carry = 0 /\ \A j \in b : j < i THEN {j \in a : j >= i}
  ELSE LET t == (IF i \in a THEN 1 ELSE 0) + (IF i \in b THEN 1 ELSE 0) + carry
       IN  (IF t % 2 = 1 THEN {i} ELSE {}) \cup AddCarry(a, b, i + 1, t \div 2, width)

\* a + b for two u128
Add128(a, b) ==
  IF b = {} THEN a
  ELSE {j \in a : \A k \in b : j < k}
         \cup AddCarry(a, b, CHOOSE k \in b : \A j \in b : k <= j, 0, 128)

\* the words [from, to) of a slice (0-based)
Slice(s, from, to) == SubSeq(s, from + 1, to)

\* the sum of count_ones over a slice of words
PopCount(words) == SumTo([i \in 1..Len(words) |-> count_ones(words[i])], 1, Len(words))

RECURSIVE L12Fields(_, _, _, _)
\* L12Fields recording the count of each sub-block alone, not the running sum
L12FieldsPerBlock(block, i, l12_rank, sum) ==
  IF 8 * i >= Len(block) THEN <<l12_rank, sum>>
  ELSE L12Fields(block, i + 1,
                 Add128(l12_rank,
                        Shl(BitsOfNat(PopCount(Slice(block, 8 * i, Min(8 * i + 8, Len(block))))),
                            i * 12, 128)),
                 sum + PopCount(Slice(block, 8 * i, Min(8 * i + 8, Len(block)))))

\* lines 81-84 (and 93-96): the inner loop over the 8-word sub-blocks of one
\* L1 block, from sub-block i on; <<l12_rank, sum>>
L12Fields(block, i, l12_rank, sum) ==
  IF 8 * i >= Len(block) THEN <<l12_rank, sum>>
  ELSE LET block8 == Slice(block, 8 * i, Min(8 * i + 8, Len(block)))
           sum2 == sum + PopCount(block8)
       IN  L12Fields(block, i + 1, Add128(l12_rank, Shl(BitsOfNat(sum2), i * 12, 128)), sum2)

RECURSIVE L12Ranks(_, _, _)
\* L12Ranks with l1_rank left as it is after each block
L12RanksFromZero(bits, k, l1_rank) ==
  IF 64 * k >= Len(bits) THEN <<>>
  ELSE <<Shl(L12Fields(Slice(bits, 64 * k, Min(64 * k + 64, Len(bits))), 0, {}, 0)[1], 44, 128)
           \cup l1_rank>>
         \o L12Ranks(bits, k + 1, l1_rank)

\* lines 78-99, from L1 block number k on
L12Ranks(bits, k, l1_rank) ==
  IF 64 * k >= Len(bits) THEN <<>>
  ELSE LET block == Slice(bits, 64 * k, Min(64 * k + 64, Len(bits)))
           r == L12Fields(block, 0, {}, 0)
           l12_rank == Shl(r[1], 44, 128) \cup l1_rank
       IN  <<l12_rank>> \o L12Ranks(bits, k + 1, Add128(l1_rank, BitsOfNat(r[2])))

RankedBits_new(bits) == [bits |-> bits, l12_ranks |-> L12Ranks(bits, 0, {})]

\* (l12_rank & 0xFFFFFFFFFFF)
L1RankBits(l12_rank) == l12_rank \cap LowMask(44)

\* L2RankBits reading the field of the L2 block itself, not of the one before
L2RankBitsOwnField(l12_rank, l2_pos) == Shr(l12_rank, 44 + 12 * l2_pos) \cap LowMask(12)

\* ((l12_rank >> (32 + 12 * l2_pos)) & 0xFFF)
L2RankBits(l12_rank, l2_pos) == Shr(l12_rank, 32 + 12 * l2_pos) \cap LowMask(12)

\* lines 36-54: total_rank for the bit at idx
TotalRank(bits, l12_ranks, idx) ==
  LET l1_pos == idx \div L1_BIT_SIZE
      l2_pos == (idx % L1_BIT_SIZE) \div L2_BIT_SIZE
      l12_rank == At(l12_ranks, l1_pos)
      l1_rank == NatOfBits(L1RankBits(l12_rank))
      l2_rank == NatOfBits(L2RankBits(l12_rank, l2_pos))
      idx_within_l2 == idx % L2_BIT_SIZE
      blocks_num == idx_within_l2 \div 64
      offset == (idx \div L2_BIT_SIZE) * 8
      block == Slice(bits, offset, offset + blocks_num)
      block_rank == PopCount(block)
      word == At(bits, offset + blocks_num)
      word_mask == IF idx_within_l2 > 0 THEN LowMask(idx_within_l2 % 64) ELSE {}
      word_rank == count_ones(word \cap word_mask)
  IN  l1_rank + l2_rank + block_rank + word_rank

\* rank_impl without the test of the bit: the count, whatever the bit is
rank_impl_raw(bits, l12_ranks, idx) == Some(TotalRank(bits, l12_ranks, idx))

\* lines 27-57; idx is below the length of bits in bits
rank_impl(bits, l12_ranks, idx) ==
  IF (idx % 64) \notin At(bits, idx \div 64) THEN None
  ELSE Some(TotalRank(bits, l12_ranks, idx))

\* lines 36-54 with total_rank kept as a word: the same sum for an l1_rank of
\* up to 44 bits (l2_rank, block_rank and word_rank are at most 4095, 448, 63)
TotalRankBits(bits, l12_ranks, idx) ==
  LET l1_pos == idx \div L1_BIT_SIZE
      l2_pos == (idx % L1_BIT_SIZE) \div L2_BIT_SIZE
      l12_rank == At(l12_ranks, l1_pos)
      l1_rank == L1RankBits(l12_rank)
      l2_rank == NatOfBits(L2RankBits(l12_rank, l2_pos))
      idx_within_l2 == idx % L2_BIT_SIZE
      blocks_num == idx_within_l2 \div 64
      offset == (idx \div L2_BIT_SIZE) * 8
      block == Slice(bits, offset, offset + blocks_num)
      block_rank == PopCount(block)
      word == At(bits, offset + blocks_num)
      word_mask == IF idx_within_l2 > 0 THEN LowMask(idx_within_l2 % 64) ELSE {}
      word_rank == count_ones(word \cap word_mask)
  IN  Add128(l1_rank, BitsOfNat(l2_rank + block_rank + word_rank))

\* lines 27-57, the rank returned as a word
rank_impl_bits(bits, l12_ranks, idx) ==
  IF (idx % 64) \notin At(bits, idx \div 64) THEN None
  ELSE Some(TotalRankBits(bits, l12_ranks, idx))

RankedBits_rank(ranked_bits, idx) == rank_impl(ranked_bits.bits, ranked_bits.l12_ranks, idx)

\* the bit at position idx
RankedBits_get(ranked_bits, idx) == (idx % 64) \in At(ranked_bits.bits, idx \div 64)

\* ------------------------------------------------------ mphf.rs: query

MAX_LEVELS == 32

\* The keys of the model are 1..5.  The hasher H is a parameter of Mphf; the
\* model's hasher gives key k the 64-bit hash KeyHash[k].  2 and 1184 fall on
\* the same bit of a 64-bit group at levels 0 and 1 (a third level is needed);
\* 32 and 23 fall on the same bit of a 32-bit group under seed 0 and on
\* different bits under seed 1.
KeyHash == <<21120, 2, 1184, 32, 23>>

Keys == DOMAIN KeyHash

hash_key(key) == FromNat(KeyHash[key], 8)

RECURSIVE MphfProbe(_, _, _, _, _, _)

\* lines 246-248: the read of the bit at bit_idx
ProbeBit(b, mphf, hash, level, groups_before, probes, group_idx, bit_idx) ==
  IF bit_idx >= 64 * Len(mphf.ranked_bits.bits)
  THEN [ret |-> None, probes |-> Append(probes, <<group_idx, bit_idx>>), in_range |-> FALSE]
  ELSE IF RankedBits_get(mphf.ranked_bits, bit_idx)
  THEN [ret |-> RankedBits_rank(mphf.ranked_bits, bit_idx),
        probes |-> Append(probes, <<group_idx, bit_idx>>), in_range |-> TRUE]
  ELSE MphfProbe(b, mphf, hash, level + 1, groups_before + At(mphf.level_groups, level),
                 Append(probes, <<group_idx, bit_idx>>))

\* lines 244-245: the read of the seed of group group_idx
ProbeGroup(b, mphf, hash, level, groups_before, probes, level_hash, group_idx) ==
  IF group_idx >= Len(mphf.group_seeds)
  THEN [ret |-> None, probes |-> Append(probes, <<group_idx, -1>>), in_range |-> FALSE]
  ELSE ProbeBit(b, mphf, hash, level, groups_before, probes, group_idx,
                BestBitIndex(b, level_hash, mphf.group_seeds, group_idx))

\* ProbeLevel taking the group index within the level for the global one
ProbeLevelLocal(b, mphf, hash, level, groups_before, probes, level_hash) ==
  ProbeGroup(b, mphf, hash, level, groups_before, probes, level_hash,
             fastmod32(Resize(level_hash, 4), At(mphf.level_groups, level)))

\* lines 242-243 for the level hash of the key
ProbeLevel(b, mphf, hash, level, groups_before, probes, level_hash) ==
  ProbeGroup(b, mphf, hash, level, groups_before, probes, level_hash,
             groups_before + fastmod32(Resize(level_hash, 4), At(mphf.level_groups, level)))

\* The loop of Mphf::get from `level` on.  ret is what get returns, probes the
\* <<group_idx, bit_idx>> pairs it reads with get_unchecked; in_range is FALSE
\* when a read falls outside group_seeds or the bit vector (ret is then None).
MphfProbe(b, mphf, hash, level, groups_before, probes) ==
  IF level >= Len(mphf.level_groups)
  THEN [ret |-> None, probes |-> probes, in_range |-> TRUE]
  ELSE ProbeLevel(b, mphf, hash, level, groups_before, probes, hash_with_seed(hash, level))

Mphf_probe(b, mphf, key) == MphfProbe(b, mphf, hash_key(key), 0, 0, <<>>)

Mphf_get(b, mphf, key) == Mphf_probe(b, mphf, key).ret

\* --------------------------------------- map_with_dict_bitpacked.rs: packing

VALUES_BLOCK_LEN == 32

\* `n as u32` for a natural n
U32(n) == BitsOfNat(n)

U32_MAX == 0..31

\* BitPacker1x::num_bits: the width of the largest value of the block
num_bits(values_block) ==
  LET all == UNION Range(values_block)
  IN  IF all = {} THEN 0 ELSE 1 + CHOOSE i \in all : \A j \in all : j <= i

\* bit p of the stream BitPacker1x::compress writes: value p / w, bit p % w
StreamBit(values_block, w, p) ==
  w > 0 /\ p < VALUES_BLOCK_LEN * w /\ (p % w) \in (At(values_block, p \div w) \cap LowMask(w))

\* BitPacker1x::compress into a buffer of `len` bytes
compress(values_block, len, w) ==
  Elems([k \in 1..len |->
     SumTo([j \in 0..7 |-> IF StreamBit(values_block, w, 8 * (k - 1) + j) THEN Pow2(j) ELSE 0], 0, 7)])

\* BitPacker1x::decompress from the bytes of `compressed`
decompress(compressed, w) ==
  Elems([i \in 1..VALUES_BLOCK_LEN |->
     {j \in 0..(w - 1) :
        LET p == (i - 1) * w + j
        IN  (At(compressed, p \div 8) \div Pow2(p % 8)) % 2 = 1}])

\* lines 208-211: the block copied into a zeroed array of VALUES_BLOCK_LEN values
ValuesBlock(block) ==
  Elems([n \in 1..VALUES_BLOCK_LEN |-> IF n <= Len(block) THEN block[n] ELSE {}])

\* PackedBlock with the size rounded down
PackedBlockFloor(block, values_block, num) ==
  <<num>> \o Slice(compress(values_block, 4 * VALUES_BLOCK_LEN, num), 0, (Len(block) * num) \div 8)

\* PackedBlock with the size of a whole block of VALUES_BLOCK_LEN values
PackedBlockWhole(block, values_block, num) ==
  <<num>> \o Slice(compress(values_block, 4 * VALUES_BLOCK_LEN, num), 0,
                   DivCeil(VALUES_BLOCK_LEN * num, 8))

\* lines 217-222: what the block adds to dict, num being its num_bits
PackedBlock(block, values_block, num) ==
  <<num>> \o Slice(compress(values_block, 4 * VALUES_BLOCK_LEN, num), 0,
                   DivCeil(Len(block) * num, 8))

\* PackValuesBlock packing every block at the full 32 bits a value
PackValuesBlockWidest(block, values_block) == PackedBlock(block, values_block, 32)

\* lines 214-222
PackValuesBlock(block, values_block) == PackedBlock(block, values_block, num_bits(values_block))

RECURSIVE PackBlocks(_, _, _)
\* the loop of pack_values from value number `from` (0-based) on
PackBlocks(values, from, dict) ==
  IF from >= Len(values) THEN dict
  ELSE PackBlocks(values, from + VALUES_BLOCK_LEN,
                  dict \o PackValuesBlock(
                    Slice(values, from, Min(from + VALUES_BLOCK_LEN, Len(values))),
                    ValuesBlock(Slice(values, from, Min(from + VALUES_BLOCK_LEN, Len(values))))))

pack_values(values, dict) == PackBlocks(values, 0, dict)

RECURSIVE UnpackBlocks(_, _, _, _)
\* the loop of unpack_values from value number `from` (0-based) on, reading
\* dict from byte `at`; panicked is TRUE when an index or the length check of
\* decompress fails, reads is the number of bytes of dict the decoder touched
UnpackBlocks(dict, at, res, from) ==
  IF from >= Len(res) THEN [res |-> res, panicked |-> FALSE, reads |-> 0]
  ELSE LET len == Min(VALUES_BLOCK_LEN, Len(res) - from)
       IN  IF at >= Len(dict) THEN [res |-> res, panicked |-> TRUE, reads |-> at + 1]
           ELSE LET w == At(dict, at)
                    size == DivCeil(len * w, 8)
                    need == (w * VALUES_BLOCK_LEN) \div 8
                IN  IF w > 32 \/ at + 1 + need > Len(dict) \/ at + 1 + size > Len(dict)
                    THEN [res |-> res, panicked |-> TRUE, reads |-> at + 1 + need]
                    ELSE LET values_block == decompress(Slice(dict, at + 1, at + 1 + need), w)
                             res2 == Elems([i \in 1..Len(res) |->
                                       IF i > from /\ i <= from + len
                                       THEN values_block[i - from] ELSE res[i]])
                             rest == UnpackBlocks(dict, at + 1 + size, res2, from + len)
                         IN  [rest EXCEPT !.reads = IF @ > at + 1 + need THEN @ ELSE at + 1 + need]

\* unpack_values(&dict[dict_idx..], res)
unpack_values(dict, dict_idx, res) == UnpackBlocks(dict, dict_idx, res, 0)

\* ---------------------------------------------------------- the inputs

\* the most pairs an input holds
MaxKeys == 3

\* the ascending sequence of a finite set of numbers
RECURSIVE Ascending(_)
Ascending(set) ==
  IF set = {} THEN <<>>
  ELSE LET m == CHOOSE x \in set : \A y \in set : x <= y
       IN  <<m>> \o Ascending(set \ {m})

Reverse(s) == Elems([i \in 1..Len(s) |-> s[Len(s) + 1 - i]])

\* key sequences in which a key comes twice
DuplicateKeySeqs == {<<1, 1>>, <<2, 5, 2>>}

\* the key sequences an input iterator yields: every set of at most MaxKeys
\* keys, in ascending and in descending order, and those with a key twice
KeySeqs ==
  LET sets == {ks \in SUBSET Keys : Cardinality(ks) <= MaxKeys}
  IN  {Ascending(ks) : ks \in sets} \cup {Reverse(Ascending(ks)) : ks \in sets}
        \cup DuplicateKeySeqs

\* const generics B, S, ST (its width in bits) and the argument gamma (a
\* fraction <<numerator, denominator>>) that pass the checks of from_slice
ValidParams ==
  { [B |-> 32, S |-> 1, ST_BITS |-> 8, gamma |-> <<1, 1>>],
    [B |-> 24, S |-> 1, ST_BITS |-> 8, gamma |-> <<3, 2>>],
    [B |-> 64, S |-> 0, ST_BITS |-> 16, gamma |-> <<2, 1>>] }

\* and some that do not
InvalidParams ==
  { [B |-> 0, S |-> 1, ST_BITS |-> 8, gamma |-> <<1, 1>>],
    [B |-> 65, S |-> 1, ST_BITS |-> 8, gamma |-> <<1, 1>>],
    [B |-> 32, S |-> 17, ST_BITS |-> 8, gamma |-> <<1, 1>>],
    [B |-> 32, S |-> 9, ST_BITS |-> 8, gamma |-> <<1, 1>>],
    [B |-> 32, S |-> 1, ST_BITS |-> 8, gamma |-> <<1, 2>>],
    [B |-> 0, S |-> 17, ST_BITS |-> 8, gamma |-> <<1, 2>>],
    [B |-> 64, S |-> 17, ST_BITS |-> 16, gamma |-> <<1, 2>>],
    [B |-> 32, S |-> 9, ST_BITS |-> 8, gamma |-> <<1, 2>>] }

\* the value a key is inserted with into a MapWithDict
DictValues == <<"Dog", "Cat", "Dog", "Bird", "Cat">>

Vec(s) == Elems([i \in 1..Len(s) |-> U32(s[i])])

\* the vectors a key is inserted with into a MapWithDictBitpacked: vectors of
\* length 3, vectors of length 34 (two blocks), vectors of unequal length,
\* and empty vectors
BitpackedValues ==
  { <<Vec(<<1, 2, 3>>), Vec(<<3, 5, 7>>), Vec(<<1, 2, 3>>),
      Vec(<<0, 0, 0>>), <<U32_MAX, U32(1), U32(0)>>>>,
    <<<<>>, <<>>, <<>>, <<>>, <<>>>>,
    <<Repeat(U32(1), 34), Repeat(U32(0), 34), Repeat(U32(1), 34),
      Repeat(U32_MAX, 33) \o Vec(<<9>>), Vec(<<70000>>) \o Repeat(U32(5), 33)>>,
    <<Vec(<<1, 2, 3>>), Vec(<<3, 5>>), Vec(<<1, 2, 3>>),
      <<>>, Vec(<<1, 2, 3>>)>> }

Pairs(ks, table) == Elems([i \in 1..Len(ks) |-> <<ks[i], table[ks[i]]>>])

\* MapWithDict::from_iter_with_params::<B, S, ST>(iter, gamma)
DictInputs ==
  {[kind |-> "MapWithDict", params |-> p, iter |-> Pairs(ks, DictValues)] :
      p \in ValidParams \cup InvalidParams, ks \in KeySeqs}

\* MapWithDictBitpacked::from_iter_with_params::<32, 1, u8>(iter, 1.0)
BitpackedInputs ==
  {[kind |-> "MapWithDictBitpacked", params |-> p, iter |-> Pairs(ks, t)] :
      p \in {q \in ValidParams : q.B = 32 /\ q.S = 1}, ks \in KeySeqs, t \in BitpackedValues}

\* Set::from_iter_with_params::<32, 1, u8>(iter, 1.0); the iterator yields keys
SetInputs ==
  {[kind |-> "Set", params |-> p, iter |-> Elems([n \in 1..Len(ks) |-> <<ks[n]>>])] :
      p \in {q \in ValidParams : q.B = 32 /\ q.S = 1}, ks \in KeySeqs}

\* ------------------------------------------------------------ the state

VARIABLES
  input,         \* the container built, its parameters and the pairs of the iterator
  pc,            \* where construction stands
  err,           \* the Err construction returned, "" while there is none
  keys,          \* from_iter_with_params: keys
  values_index,  \* from_iter_with_params: values_index
  values_dict,   \* from_iter_with_params: values_dict
  hashes,        \* from_slice: hashes
  group_bits,    \* from_slice: group_bits
  group_seeds,   \* from_slice: group_seeds
  level_groups,  \* from_slice: level_groups
  mphf,          \* the Mphf from_slice returned
  i,             \* the index of the re-ordering loop
  query          \* the last query made of the finished container and its result

vars == <<input, pc, err, keys, values_index, values_dict, hashes, group_bits,
          group_seeds, level_groups, mphf, i, query>>

B == input.params.B

S == input.params.S

NoMphf ==
  [ranked_bits |-> [bits |-> <<>>, l12_ranks |-> <<>>], level_groups |-> <<>>, group_seeds |-> <<>>]

NoQuery == [op |-> "none"]

Init ==
  /\ \/ input \in DictInputs
     \/ input \in BitpackedInputs
     \/ input \in SetInputs
  /\ pc = "collect"
  /\ err = ""
  /\ keys = <<>>
  /\ values_index = <<>>
  /\ values_dict = <<>>
  /\ hashes = <<>>
  /\ group_bits = <<>>
  /\ group_seeds = <<>>
  /\ level_groups = <<>>
  /\ mphf = NoMphf
  /\ i = 0
  /\ query = NoQuery

\* --------------------------------------- from_iter_with_params: collecting

\* CachedOffset of a cache that finds nothing
CachedOffsetMiss(offsets_cache, v) == None

\* offsets_cache.get(&v): the dictionary offset of a value seen before
CachedOffset(offsets_cache, v) ==
  IF \E e \in offsets_cache : e[1] = v
  THEN Some((CHOOSE e \in offsets_cache : e[1] = v)[2])
  ELSE None

RECURSIVE DictCollect(_, _, _, _, _, _)
\* map_with_dict.rs lines 54-67, from pair number k on
DictCollect(iter, k, ks, vi, vd, offsets_cache) ==
  IF k > Len(iter) THEN [keys |-> ks, values_index |-> vi, values_dict |-> vd, err |-> ""]
  ELSE LET key == iter[k][1]
           v == iter[k][2]
           hit == CachedOffset(offsets_cache, v)
           offset == Len(vd)
       IN  IF hit # None
           THEN DictCollect(iter, k + 1, Append(ks, key), Append(vi, hit[1]), vd, offsets_cache)
           ELSE DictCollect(iter, k + 1, Append(ks, key), Append(vi, offset),
                            Append(vd, v), offsets_cache \cup {<<v, offset>>})

RECURSIVE BitpackedCollect(_, _, _, _, _, _, _)
\* map_with_dict_bitpacked.rs lines 60-79, from pair number k on
BitpackedCollect(iter, k, v_len, ks, vi, vd, offsets_cache) ==
  IF k > Len(iter)
  THEN [keys |-> ks, values_index |-> vi, values_dict |-> vd, err |-> ""]
  ELSE LET key == iter[k][1]
           v == iter[k][2]
           hit == CachedOffset(offsets_cache, v)
           offset == Len(vd)
       IN  IF Len(v) # v_len
           THEN [keys |-> Append(ks, key), values_index |-> vi, values_dict |-> vd,
                 err |-> "NotEqualValuesLengths"]
           ELSE IF hit # None
           THEN BitpackedCollect(iter, k + 1, v_len, Append(ks, key), Append(vi, hit[1]),
                                 vd, offsets_cache)
           ELSE BitpackedCollect(iter, k + 1, v_len, Append(ks, key), Append(vi, offset),
                                 pack_values(v, vd), offsets_cache \cup {<<v, offset>>})

\* FirstLen taking the length of no vector
FirstLenZero(iter) == 0

\* iter.peek().map_or(0, |(_, v)| v.len())
FirstLen(iter) == IF iter = <<>> THEN 0 ELSE Len(iter[1][2])

\* the vectors collected (r) become the state of from_iter_with_params
Collected(r) ==
  /\ keys' = r.keys
  /\ values_index' = r.values_index
  /\ values_dict' = r.values_dict
  /\ err' = r.err
  /\ pc' = IF r.err = "" THEN "from_slice" ELSE "failed"

CollectDict ==
  /\ pc = "collect"
  /\ input.kind = "MapWithDict"
  /\ Collected(DictCollect(input.iter, 1, <<>>, <<>>, <<>>, {}))
  /\ UNCHANGED <<input, hashes, group_bits, group_seeds, level_groups, mphf, i, query>>

\* Padded with the padding forgotten
NotPadded(r) == r

\* Padded with one byte for each value of a block
PaddedShort(r) ==
  IF r.err = "" THEN [r EXCEPT !.values_dict = @ \o Repeat(0, VALUES_BLOCK_LEN)] ELSE r

\* line 82: values_dict.resize(values_dict.len() + 4 * VALUES_BLOCK_LEN, 0)
Padded(r) ==
  IF r.err = "" THEN [r EXCEPT !.values_dict = @ \o Repeat(0, 4 * VALUES_BLOCK_LEN)] ELSE r

CollectBitpacked ==
  /\ pc = "collect"
  /\ input.kind = "MapWithDictBitpacked"
  /\ Collected(Padded(BitpackedCollect(input.iter, 1, FirstLen(input.iter), <<>>, <<>>, <<>>, {})))
  /\ UNCHANGED <<input, hashes, group_bits, group_seeds, level_groups, mphf, i, query>>

\* Set: the keys are collected in input order; a set holds no values
CollectSet ==
  /\ pc = "collect"
  /\ input.kind = "Set"
  /\ keys' = Elems([n \in 1..Len(input.iter) |-> input.iter[n][1]])
  /\ pc' = "from_slice"
  /\ UNCHANGED <<input, err, values_index, values_dict, hashes, group_bits, group_seeds,
                 level_groups, mphf, i, query>>

\* ------------------------------------------------------- Mphf::from_slice

\* ParamError rejecting gamma = 1.0 as well
ParamErrorGammaAbove(params) ==
  IF params.B < 1 \/ params.B > 64 THEN "InvalidBParameter"
  ELSE IF params.S > 16 THEN "InvalidSParameter"
  ELSE IF params.gamma[1] <= params.gamma[2] THEN "InvalidGammaParameter"
  ELSE IF Pow2(params.S) - 1 >= Pow2(params.ST_BITS) THEN "InvalidSeedType"
  ELSE ""

\* lines 59-73: the Err of a parameter out of range, "" when all are in range
ParamError(params) ==
  IF params.B < 1 \/ params.B > 64 THEN "InvalidBParameter"
  ELSE IF params.S > 16 THEN "InvalidSParameter"
  ELSE IF params.gamma[1] < params.gamma[2] THEN "InvalidGammaParameter"
  ELSE IF Pow2(params.S) - 1 >= Pow2(params.ST_BITS) THEN "InvalidSeedType"
  ELSE ""

\* lines 59-78
FromSliceStart ==
  /\ pc = "from_slice"
  /\ err' = ParamError(input.params)
  /\ IF err' # ""
     THEN pc' = "failed" /\ hashes' = hashes
     ELSE pc' = "build_level" /\ hashes' = Elems([k \in 1..Len(keys) |-> hash_key(keys[k])])
  /\ UNCHANGED <<input, keys, values_index, values_dict, group_bits, group_seeds,
                 level_groups, mphf, i, query>>

\* what the words next to the working buffer of build_level may hold
OobWords == {{}, U64_MAX}

\* LevelBuilt giving up one level late
LevelBuiltOneMore(r) ==
  /\ group_bits' = group_bits \o r[1]
  /\ group_seeds' = group_seeds \o r[2]
  /\ level_groups' = Append(level_groups, Len(r[2]))
  /\ hashes' = r[3]
  /\ IF Len(level_groups') > MAX_LEVELS /\ hashes' # <<>>
     THEN pc' = "failed" /\ err' = "MaxLevelsExceeded"
     ELSE pc' = pc /\ err' = err

\* lines 82-90 for the level r that build_level returned
LevelBuilt(r) ==
  /\ group_bits' = group_bits \o r[1]
  /\ group_seeds' = group_seeds \o r[2]
  /\ level_groups' = Append(level_groups, Len(r[2]))
  /\ hashes' = r[3]
  /\ IF Len(level_groups') = MAX_LEVELS /\ hashes' # <<>>
     THEN pc' = "failed" /\ err' = "MaxLevelsExceeded"
     ELSE pc' = pc /\ err' = err

\* lines 80-91: one turn of the loop
BuildLevel ==
  /\ pc = "build_level"
  /\ hashes # <<>>
  /\ \E oob \in OobWords :
       LevelBuilt(build_level(B, S, Len(level_groups), hashes, input.params.gamma, oob))
  /\ UNCHANGED <<input, keys, values_index, values_dict, mphf, i, query>>

\* lines 93-98
FromSliceOk ==
  /\ pc = "build_level"
  /\ hashes = <<>>
  /\ mphf' = [ranked_bits |-> RankedBits_new(group_bits),
              level_groups |-> level_groups,
              group_seeds |-> group_seeds]
  /\ pc' = "reorder"
  /\ UNCHANGED <<input, err, keys, values_index, values_dict, hashes, group_bits,
                 group_seeds, level_groups, i, query>>

RECURSIVE FromSliceLevels(_, _, _, _, _, _)
\* lines 82-90 for the level r that build_level returned, as a function: the
\* result of from_slice from there on
FromSliceLevel(b, s, gamma, built, r, oob) ==
  IF Len(built.level_groups) + 1 = MAX_LEVELS /\ r[3] # <<>>
  THEN [err |-> "MaxLevelsExceeded", mphf |-> NoMphf]
  ELSE FromSliceLevels(b, s, gamma, r[3],
                       [group_bits |-> built.group_bits \o r[1],
                        group_seeds |-> built.group_seeds \o r[2],
                        level_groups |-> Append(built.level_groups, Len(r[2]))],
                       oob)

\* lines 80-98: the loop of from_slice over the hashes hs, with the levels
\* built so far, and what it returns
FromSliceLevels(b, s, gamma, hs, built, oob) ==
  IF hs = <<>>
  THEN [err |-> "",
        mphf |-> [ranked_bits |-> RankedBits_new(built.group_bits),
                  level_groups |-> built.level_groups,
                  group_seeds |-> built.group_seeds]]
  ELSE FromSliceLevel(b, s, gamma, built,
                      build_level(b, s, Len(built.level_groups), hs, gamma, oob), oob)

\* Mphf::from_slice(ks, gamma) for parameters that pass the checks, lines 77-98
Mphf_from_slice(b, s, gamma, ks, oob) ==
  FromSliceLevels(b, s, gamma, Elems([k \in 1..Len(ks) |-> hash_key(ks[k])]),
                  [group_bits |-> <<>>, group_seeds |-> <<>>, level_groups |-> <<>>], oob)

\* ------------------------------------ from_iter_with_params: re-ordering

Swap(s, a, b) == [s EXCEPT ![a + 1] = s[b + 1], ![b + 1] = s[a + 1]]

\* Reordered with the swap of values_index forgotten
ReorderedKeysOnly(got) ==
  IF got = None \/ got[1] >= Len(keys)
  THEN /\ pc' = "failed" /\ err' = "panic"
       /\ UNCHANGED <<keys, values_index, i>>
  ELSE IF got[1] = i
  THEN /\ i' = i + 1
       /\ UNCHANGED <<pc, err, keys, values_index>>
  ELSE /\ keys' = Swap(keys, i, got[1])
       /\ UNCHANGED <<pc, err, values_index, i>>

\* Reordered swapping position i with its neighbour, not with position idx
ReorderedWithNext(got) ==
  IF got = None \/ got[1] >= Len(keys)
  THEN /\ pc' = "failed" /\ err' = "panic"
       /\ UNCHANGED <<keys, values_index, i>>
  ELSE IF got[1] = i \/ i + 1 >= Len(keys)
  THEN /\ i' = i + 1
       /\ UNCHANGED <<pc, err, keys, values_index>>
  ELSE /\ keys' = Swap(keys, i, i + 1)
       /\ values_index' = Swap(values_index, i, i + 1)
       /\ i' = i + 1
       /\ UNCHANGED <<pc, err>>

\* Reordered with the swap of keys forgotten
ReorderedIndexOnly(got) ==
  IF got = None \/ got[1] >= Len(keys)
  THEN /\ pc' = "failed" /\ err' = "panic"
       /\ UNCHANGED <<keys, values_index, i>>
  ELSE IF got[1] = i
  THEN /\ i' = i + 1
       /\ UNCHANGED <<pc, err, keys, values_index>>
  ELSE /\ values_index' = Swap(values_index, i, got[1])
       /\ UNCHANGED <<pc, err, keys, i>>

\* map_with_dict.rs lines 74-80, map_with_dict_bitpacked.rs lines 89-95, for
\* the result `got` of mphf.get(&keys[i])
Reordered(got) ==
  IF got = None \/ got[1] >= Len(keys)
  THEN /\ pc' = "failed" /\ err' = "panic"
       /\ UNCHANGED <<keys, values_index, i>>
  ELSE IF got[1] = i
  THEN /\ i' = i + 1
       /\ UNCHANGED <<pc, err, keys, values_index>>
  ELSE /\ keys' = Swap(keys, i, got[1])
       /\ values_index' = Swap(values_index, i, got[1])
       /\ UNCHANGED <<pc, err, i>>

\* map_with_dict.rs lines 72-81, map_with_dict_bitpacked.rs lines 87-96: one
\* turn of the inner loop
ReorderStep ==
  /\ pc = "reorder"
  /\ input.kind # "Set"
  /\ i < Len(keys)
  /\ Reordered(Mphf_get(B, mphf, At(keys, i)))
  /\ UNCHANGED <<input, values_dict, hashes, group_bits, group_seeds, level_groups, mphf, query>>

\* Set: the same cycle sort on keys alone, for the result `got` of
\* mphf.get(&keys[i])
SetReordered(got) ==
  IF got = None \/ got[1] >= Len(keys)
  THEN /\ pc' = "failed" /\ err' = "panic"
       /\ UNCHANGED <<keys, i>>
  ELSE IF got[1] = i
  THEN /\ i' = i + 1
       /\ UNCHANGED <<pc, err, keys>>
  ELSE /\ keys' = Swap(keys, i, got[1])
       /\ UNCHANGED <<pc, err, i>>

SetReorderStep ==
  /\ pc = "reorder"
  /\ input.kind = "Set"
  /\ i < Len(keys)
  /\ SetReordered(Mphf_get(B, mphf, At(keys, i)))
  /\ UNCHANGED <<input, values_index, values_dict, hashes, group_bits, group_seeds,
                 level_groups, mphf, query>>

\* the outer loop is over: Ok(MapWithDict { .. })
ReorderDone ==
  /\ pc = "reorder"
  /\ i = Len(keys)
  /\ pc' = "done"
  /\ UNCHANGED <<input, err, keys, values_index, values_dict, hashes, group_bits,
                 group_seeds, level_groups, mphf, i, query>>

\* ---------------------------------------------------------- the queries

\* the record of a query: the call made and what it returned
Answer(op, key, r) == [op |-> op, key |-> key] @@ r

\* Mphf::get(key).  A caller makes its next call once it has dropped the
\* result of the last one (DropResult), so a finished container answers any
\* sequence of queries.
MphfGet(key) ==
  /\ pc = "done"
  /\ query = NoQuery
  /\ query' = Answer("Mphf::get", key, Mphf_probe(B, mphf, key))
  /\ UNCHANGED <<input, pc, err, keys, values_index, values_dict, hashes, group_bits,
                 group_seeds, level_groups, mphf, i>>

\* GetAt reading index 0 where mphf.get found nothing
GetAtOrFirst(key, got) ==
  IF Len(keys) = 0 THEN [ret |-> None, in_range |-> FALSE]
  ELSE IF got = None
  THEN [ret |-> Some(At(values_dict, At(values_index, 0))), in_range |-> TRUE]
  ELSE IF At(keys, got[1]) # key THEN [ret |-> None, in_range |-> TRUE]
  ELSE [ret |-> Some(At(values_dict, At(values_index, got[1]))), in_range |-> TRUE]

\* map_with_dict.rs lines 94-105 for the result `got` of mphf.get(key): ret is
\* what get returns; in_range is FALSE when one of the get_unchecked reads
\* falls outside its slice (ret is then None)
GetAt(key, got) ==
  IF got = None THEN [ret |-> None, in_range |-> TRUE]
  ELSE IF got[1] >= Len(keys) THEN [ret |-> None, in_range |-> FALSE]
  ELSE IF At(keys, got[1]) # key THEN [ret |-> None, in_range |-> TRUE]
  ELSE IF At(values_index, got[1]) >= Len(values_dict) THEN [ret |-> None, in_range |-> FALSE]
  ELSE [ret |-> Some(At(values_dict, At(values_index, got[1]))), in_range |-> TRUE]

MapWithDict_get(key) == GetAt(key, Mphf_get(B, mphf, key))

\* map_with_dict.rs lines 110-112
MapWithDict_len == Len(keys)

\* map_with_dict.rs lines 116-118
MapWithDict_is_empty == keys = <<>>

Get(key) ==
  /\ pc = "done"
  /\ query = NoQuery
  /\ input.kind = "MapWithDict"
  /\ query' = Answer("get", key, MapWithDict_get(key))
  /\ UNCHANGED <<input, pc, err, keys, values_index, values_dict, hashes, group_bits,
                 group_seeds, level_groups, mphf, i>>

\* ContainsAt without the comparison of the stored key
ContainsAtAnyIndex(key, got) ==
  IF got = None THEN [ret |-> FALSE, in_range |-> TRUE]
  ELSE IF got[1] >= Len(keys) THEN [ret |-> FALSE, in_range |-> FALSE]
  ELSE [ret |-> TRUE, in_range |-> TRUE]

\* map_with_dict.rs lines 123-128 for the result `got` of mphf.get(key)
ContainsAt(key, got) ==
  IF got = None THEN [ret |-> FALSE, in_range |-> TRUE]
  ELSE IF got[1] >= Len(keys) THEN [ret |-> FALSE, in_range |-> FALSE]
  ELSE [ret |-> (At(keys, got[1]) = key), in_range |-> TRUE]

\* MapWithDict::contains_key, and MapWithDictBitpacked::contains_key, which
\* is the same code
MapWithDict_contains_key(key) == ContainsAt(key, Mphf_get(B, mphf, key))

ContainsKey(key) ==
  /\ pc = "done"
  /\ query = NoQuery
  /\ input.kind # "Set"
  /\ query' = Answer("contains_key", key, MapWithDict_contains_key(key))
  /\ UNCHANGED <<input, pc, err, keys, values_index, values_dict, hashes, group_bits,
                 group_seeds, level_groups, mphf, i>>

\* line 122 for the result u of unpack_values
Unpacked(u) ==
  [ret |-> ~u.panicked, values |-> u.res, in_range |-> TRUE, panicked |-> u.panicked]

\* GetValuesAt unpacking into the buffer before it compares the stored key
GetValuesAtUnpackFirst(key, values, got) ==
  IF got = None
  THEN [ret |-> FALSE, values |-> values, in_range |-> TRUE, panicked |-> FALSE]
  ELSE IF got[1] >= Len(keys)
  THEN [ret |-> FALSE, values |-> values, in_range |-> FALSE, panicked |-> FALSE]
  ELSE IF At(values_index, got[1]) > Len(values_dict)
  THEN [ret |-> FALSE, values |-> values, in_range |-> FALSE, panicked |-> FALSE]
  ELSE IF At(keys, got[1]) # key
  THEN [ret |-> FALSE,
        values |-> unpack_values(values_dict, At(values_index, got[1]), values).res,
        in_range |-> TRUE, panicked |-> FALSE]
  ELSE Unpacked(unpack_values(values_dict, At(values_index, got[1]), values))

\* map_with_dict_bitpacked.rs lines 109-126 for the result `got` of
\* mphf.get(key): ret is what get_values returns and values the caller's
\* buffer afterwards
GetValuesAt(key, values, got) ==
  IF got = None
  THEN [ret |-> FALSE, values |-> values, in_range |-> TRUE, panicked |-> FALSE]
  ELSE IF got[1] >= Len(keys)
  THEN [ret |-> FALSE, values |-> values, in_range |-> FALSE, panicked |-> FALSE]
  ELSE IF At(keys, got[1]) # key
  THEN [ret |-> FALSE, values |-> values, in_range |-> TRUE, panicked |-> FALSE]
  ELSE IF At(values_index, got[1]) > Len(values_dict)
  THEN [ret |-> FALSE, values |-> values, in_range |-> FALSE, panicked |-> FALSE]
  ELSE Unpacked(unpack_values(values_dict, At(values_index, got[1]), values))

MapWithDictBitpacked_get_values(key, values) ==
  GetValuesAt(key, values, Mphf_get(B, mphf, key))

\* the buffers a caller hands to get_values: as long as the vectors of the
\* map, and holding anything
Buffers == {Repeat(U32(9), FirstLen(input.iter))}

GetValues(key) ==
  /\ pc = "done"
  /\ query = NoQuery
  /\ input.kind = "MapWithDictBitpacked"
  /\ \E buf \in Buffers :
       query' = Answer("get_values", key,
                       [buf |-> buf] @@ MapWithDictBitpacked_get_values(key, buf))
  /\ UNCHANGED <<input, pc, err, keys, values_index, values_dict, hashes, group_bits,
                 group_seeds, level_groups, mphf, i>>

\* Set::contains: idx = mphf.get(k); absent if keys[idx] != k
Set_contains(key) == ContainsAt(key, Mphf_get(B, mphf, key))

Contains(key) ==
  /\ pc = "done"
  /\ query = NoQuery
  /\ input.kind = "Set"
  /\ query' = Answer("contains", key, Set_contains(key))
  /\ UNCHANGED <<input, pc, err, keys, values_index, values_dict, hashes, group_bits,
                 group_seeds, level_groups, mphf, i>>

\* the caller drops the result of its last query
DropResult ==
  /\ pc = "done"
  /\ query # NoQuery
  /\ query' = NoQuery
  /\ UNCHANGED <<input, pc, err, keys, values_index, values_dict, hashes, group_bits,
                 group_seeds, level_groups, mphf, i>>

Next ==
  \/ CollectDict
  \/ CollectBitpacked
  \/ CollectSet
  \/ FromSliceStart
  \/ BuildLevel
  \/ FromSliceOk
  \/ ReorderStep
  \/ SetReorderStep
  \/ ReorderDone
  \/ \E key \in Keys : MphfGet(key)
  \/ \E key \in Keys : Get(key)
  \/ \E key \in Keys : ContainsKey(key)
  \/ \E key \in Keys : GetValues(key)
  \/ \E key \in Keys : Contains(key)
  \/ DropResult

Spec == Init /\ [][Next]_vars

\* ----------------------------------------- Mphf::from_slice called alone

\* Mphf::<B, S, ST>::from_slice(keys, gamma) on the key slices of KeySeqs
MphfInputs ==
  {[kind |-> "Mphf", params |-> p, iter |-> Elems([n \in 1..Len(ks) |-> <<ks[n]>>])] :
      p \in ValidParams \cup InvalidParams, ks \in KeySeqs}

InitFromSlice ==
  /\ input \in MphfInputs
  /\ pc = "from_slice"
  /\ err = ""
  /\ keys = Elems([n \in 1..Len(input.iter) |-> input.iter[n][1]])
  /\ values_index = <<>>
  /\ values_dict = <<>>
  /\ hashes = <<>>
  /\ group_bits = <<>>
  /\ group_seeds = <<>>
  /\ level_groups = <<>>
  /\ mphf = NoMphf
  /\ i = 0
  /\ query = NoQuery

NextFromSlice ==
  \/ FromSliceStart
  \/ BuildLevel
  \/ FromSliceOk

\* from_slice is sequential code: once called, it runs on until it returns.
\* The last conjunct is WF_vars(BuildLevel) with ENABLED <<BuildLevel>>_vars
\* written out: a turn of the loop always appends to level_groups, so it is
\* enabled exactly where its guard holds.
SpecFromSlice ==
  /\ InitFromSlice
  /\ [][NextFromSlice]_vars
  /\ WF_vars(FromSliceStart)
  /\ WF_vars(FromSliceOk)
  /\ ([]<>(pc # "build_level" \/ hashes = <<>>) \/ []<><<BuildLevel>>_vars)

\* ------------------------------------------------ build_level on its own

\* the most hashes a level is built from
MaxLevelHashes == 3

\* The hashes handed to build_level.  With B = 24 a level of up to 192 bits
\* has 8 groups, and group 2 lies on bits 48..71 of two segments: the level
\* hashes of 1, 723 and 15284 at level 0 fall in that group, all three on bit
\* 53 under seed 0; 1 and 15284 on bit 62 under seed 1; on three bits under
\* seed 2 and under seed 3.
HashPool == {1, 723, 15284, 32, 23}

HashSeqs ==
  {Ascending(hs) : hs \in {x \in SUBSET HashPool : x # {} /\ Cardinality(x) <= MaxLevelHashes}}
    \cup {<<1, 1>>, <<723, 32, 723>>}

\* the const generics B and S, and gamma
LevelParams ==
  { [B |-> 24, S |-> 1, gamma |-> <<1, 1>>],
    [B |-> 24, S |-> 2, gamma |-> <<1, 1>>],
    [B |-> 32, S |-> 1, gamma |-> <<1, 1>>],
    [B |-> 64, S |-> 0, gamma |-> <<2, 1>>],
    [B |-> 7, S |-> 2, gamma |-> <<3, 2>>] }

\* Mphf::<B, S, ST>::build_level(level, &mut hashes, gamma)
LevelInputs ==
  {[kind |-> "build_level", params |-> p, level |-> l,
    hashes |-> Elems([k \in 1..Len(hs) |-> FromNat(hs[k], 8)])] :
      p \in LevelParams, l \in {0, 1}, hs \in HashSeqs}

\* lines 105-106: <<groups, segments>> of the level
LevelGroups(in) ==
  level_size_groups_segments(in.params.B, LevelSize(Len(in.hashes), in.params.gamma))

\* lines 105-115: the buffers before the first seed is tried; i is group_seed
InitLevel ==
  /\ input \in LevelInputs
  /\ pc = "seeds"
  /\ err = ""
  /\ keys = <<>>
  /\ values_index = <<>>
  /\ values_dict = <<>>
  /\ hashes = input.hashes
  /\ group_bits = Repeat({}, 3 * LevelGroups(input)[2])
  /\ group_seeds = Repeat(0, LevelGroups(input)[1])
  /\ level_groups = <<>>
  /\ mphf = NoMphf
  /\ i = 0
  /\ query = NoQuery

\* what update_group_bits_with_seed leaves in the buffers
SeedTried(bufs) ==
  /\ group_bits' = bufs[1]
  /\ group_seeds' = bufs[2]

\* lines 117-126: one turn of the loop over the seeds
TrySeed ==
  /\ pc = "seeds"
  /\ i < Pow2(S)
  /\ \E oob \in OobWords :
       SeedTried(update_group_bits_with_seed(B, input.level, Len(group_seeds), i, hashes,
                                             group_bits, group_seeds, oob))
  /\ i' = i + 1
  /\ UNCHANGED <<input, pc, err, keys, values_index, values_dict, hashes, level_groups,
                 mphf, query>>

\* build_level returns r: <<best_group_bits, best_group_seeds, hashes>>
LevelReturned(r) ==
  /\ group_bits' = r[1]
  /\ group_seeds' = r[2]
  /\ hashes' = r[3]

\* lines 129-140
LevelDone ==
  /\ pc = "seeds"
  /\ i = Pow2(S)
  /\ LevelReturned(LevelOf(B, input.level, Len(group_seeds), hashes, <<group_bits, group_seeds>>))
  /\ pc' = "level"
  /\ UNCHANGED <<input, err, keys, values_index, values_dict, level_groups, mphf, i, query>>

NextLevel ==
  \/ TrySeed
  \/ LevelDone

SpecLevel == InitLevel /\ [][NextLevel]_vars

\* --------------------------------------------- the size of a level alone

\* the numbers of hashes a level is built from
SizeLens == {1, 2, 3, 33, 40, 63, 64, 65, 129, 200, 449, 16777215, 16777216, 16777217}

\* B and gamma
SizeParams ==
  {[B |-> b, gamma |-> g] : b \in {1, 7, 24, 32, 64}, g \in {<<1, 1>>, <<3, 2>>, <<2, 1>>}}

SizeInputs == {[kind |-> "level_size", params |-> p, len |-> m] : p \in SizeParams, m \in SizeLens}

InitSize ==
  /\ input \in SizeInputs
  /\ pc = "size"
  /\ err = ""
  /\ keys = <<>>
  /\ values_index = <<>>
  /\ values_dict = <<>>
  /\ hashes = <<>>
  /\ group_bits = <<>>
  /\ group_seeds = <<>>
  /\ level_groups = <<>>
  /\ mphf = NoMphf
  /\ i = 0
  /\ query = NoQuery

\* lines 104-105 of build_level: level_groups holds <<groups, segments>>
SizeLevel ==
  /\ pc = "size"
  /\ pc' = "sized"
  /\ level_groups' = level_size_groups_segments(B, LevelSize(input.len, input.params.gamma))
  /\ UNCHANGED <<input, err, keys, values_index, values_dict, hashes, group_bits,
                 group_seeds, mphf, i, query>>

NextSize == SizeLevel

SpecSize == InitSize /\ [][NextSize]_vars

\* ------------------------------------------- RankedBits taken on its own

\* the most words of a bit vector whose every index is queried; of a longer
\* one the indices next to a word boundary are
MaxDenseWords == 3

\* word k of a bit vector whose bits repeat with period m, shifted by k
PatternWord(k, m) == {j \in 0..63 : (j + k) % m = 0}

PatternBits(len, m) == Elems([k \in 1..len |-> PatternWord(k, m)])

\* the three words of test_rank_and_get: 0b11001010, 0b00110111, 0b11110000
ExampleBits == <<BitsOfNat(202), BitsOfNat(55), BitsOfNat(240)>>

\* the bit vectors handed to RankedBits::new: the three words of
\* test_rank_and_get, and vectors of 0, 1, 9, 64, 65, 90 and 130 words, that
\* is up to two full L1 blocks and a partial third one
RankBits ==
  {ExampleBits}
    \cup {PatternBits(len, m) : len \in {0, 1, 9, 64, 65, 90, 130}, m \in {1, 2, 3, 5}}

RankInputs == {[kind |-> "RankedBits", bits |-> bits] : bits \in RankBits}

\* the indices a caller passes to rank: all below the length of the vector
RankIndices(bits) ==
  {idx \in 0..(64 * Len(bits) - 1) :
     Len(bits) <= MaxDenseWords \/ (idx % 64) \in {0, 1, 63}}

InitRank ==
  /\ input \in RankInputs
  /\ pc = "new"
  /\ err = ""
  /\ keys = <<>>
  /\ values_index = <<>>
  /\ values_dict = <<>>
  /\ hashes = <<>>
  /\ group_bits = <<>>
  /\ group_seeds = <<>>
  /\ level_groups = <<>>
  /\ mphf = NoMphf
  /\ i = 0
  /\ query = NoQuery

\* RankedBits::new(bits)
RankNew ==
  /\ pc = "new"
  /\ pc' = "ranked"
  /\ mphf' = [mphf EXCEPT !.ranked_bits = RankedBits_new(input.bits)]
  /\ UNCHANGED <<input, err, keys, values_index, values_dict, hashes, group_bits,
                 group_seeds, level_groups, i, query>>

\* ranked_bits.rank(idx)
Rank(idx) ==
  /\ pc = "ranked"
  /\ query = NoQuery
  /\ query' = [op |-> "rank", idx |-> idx, ret |-> RankedBits_rank(mphf.ranked_bits, idx)]
  /\ UNCHANGED <<input, pc, err, keys, values_index, values_dict, hashes, group_bits,
                 group_seeds, level_groups, mphf, i>>

NextRank ==
  \/ RankNew
  \/ \E idx \in RankIndices(input.bits) : Rank(idx)

SpecRank == InitRank /\ [][NextRank]_vars

\* ------------------------------------ RankedBits late in a long bit vector

\* The loop of RankedBits::new when it reaches an L1 block with l1_rank set
\* bits counted in the blocks before it, and rank for an index of what
\* follows.  The blocks before are whole L1 blocks, so positions and indices
\* counted from this block on give the same l2_pos, offset and words as those
\* counted from the start of the vector.

\* l1_rank when the block is reached, as a u128: 0, 2^12, 2^20 + 2^3, 2^31,
\* 2^32, 2^32 + 2^12, 2^40 + 2^35 and 2^43
LateCounts == {{}, {12}, {3, 20}, {31}, {32}, {12, 32}, {35, 40}, {43}}

\* the words from the block on: within one sub-block, two sub-blocks, and one
\* L1 block and a word of the next
LateBits == {PatternBits(len, m) : len \in {1, 9, 65}, m \in {1, 2, 3}}

LateInputs ==
  {[kind |-> "RankedBits late", l1_rank |-> c, bits |-> bits] : c \in LateCounts, bits \in LateBits}

InitLate ==
  /\ input \in LateInputs
  /\ pc = "new"
  /\ err = ""
  /\ keys = <<>>
  /\ values_index = <<>>
  /\ values_dict = <<>>
  /\ hashes = <<>>
  /\ group_bits = <<>>
  /\ group_seeds = <<>>
  /\ level_groups = <<>>
  /\ mphf = NoMphf
  /\ i = 0
  /\ query = NoQuery

\* lines 78-101 of RankedBits::new from the block on
LateNew ==
  /\ pc = "new"
  /\ pc' = "ranked"
  /\ mphf' = [mphf EXCEPT !.ranked_bits =
                [bits |-> input.bits, l12_ranks |-> L12Ranks(input.bits, 0, input.l1_rank)]]
  /\ UNCHANGED <<input, err, keys, values_index, values_dict, hashes, group_bits,
                 group_seeds, level_groups, i, query>>

\* ranked_bits.rank(idx), idx counted from the block on
LateRank(idx) ==
  /\ pc = "ranked"
  /\ query = NoQuery
  /\ query' = [op |-> "rank", idx |-> idx,
               ret |-> rank_impl_bits(mphf.ranked_bits.bits, mphf.ranked_bits.l12_ranks, idx)]
  /\ UNCHANGED <<input, pc, err, keys, values_index, values_dict, hashes, group_bits,
                 group_seeds, level_groups, mphf, i>>

NextLate ==
  \/ LateNew
  \/ \E idx \in RankIndices(input.bits) : LateRank(idx)

SpecLate == InitLate /\ [][NextLate]_vars

\* ------------------------------- pack_values and unpack_values on their own

\* the value of width w with every bit set (0 for w = 0)
AllOnes(w) == LowMask(w)

\* values of every width from 0 to 32 in turn
Mixed(len) == Elems([n \in 1..len |-> AllOnes((n * 7) % 33)])

\* 1, 2, ..., len
Ramp(len) == Elems([n \in 1..len |-> U32(n)])

\* zeros but for one value of 17 bits at position `at` (0-based)
Spike(len, at) == Elems([n \in 1..len |-> IF n = at + 1 THEN U32(70000) ELSE {}])

\* the slices handed to pack_values: those of test_pack_unpack among them
PackLens == {0, 1, 10, 31, 32, 33, 64, 77}

PackValues ==
  {Repeat(AllOnes(w), len) : w \in {0, 1, 3, 8, 9, 31, 32}, len \in PackLens}
    \cup {Mixed(len) : len \in PackLens}
    \cup {Ramp(len) : len \in PackLens}
    \cup {Spike(len, len - 1) : len \in PackLens \ {0}}

\* what dict holds before the call, and what the caller's buffer does
PackInputs ==
  {[kind |-> "pack_values", values |-> values, dict |-> dict, fill |-> fill] :
      values \in PackValues, dict \in {<<>>, <<9, 255>>}, fill \in {U32(0), U32_MAX}}

InitPack ==
  /\ input \in PackInputs
  /\ pc = "pack"
  /\ err = ""
  /\ keys = <<>>
  /\ values_index = <<>>
  /\ values_dict = input.dict
  /\ hashes = <<>>
  /\ group_bits = <<>>
  /\ group_seeds = <<>>
  /\ level_groups = <<>>
  /\ mphf = NoMphf
  /\ i = 0
  /\ query = NoQuery

\* pack_values(values, &mut dict)
Pack ==
  /\ pc = "pack"
  /\ pc' = "packed"
  /\ values_dict' = pack_values(input.values, values_dict)
  /\ UNCHANGED <<input, err, keys, values_index, hashes, group_bits, group_seeds,
                 level_groups, mphf, i, query>>

\* dict.resize(dict.len() + 4 * VALUES_BLOCK_LEN, 0)
Pad ==
  /\ pc = "packed"
  /\ pc' = "padded"
  /\ values_dict' = values_dict \o Repeat(0, 4 * VALUES_BLOCK_LEN)
  /\ UNCHANGED <<input, err, keys, values_index, hashes, group_bits, group_seeds,
                 level_groups, mphf, i, query>>

\* unpack_values(&dict[dict_idx..], &mut res), res as long as values
Unpack ==
  /\ pc = "padded"
  /\ pc' = "unpacked"
  /\ query' = [op |-> "unpack_values"]
                 @@ unpack_values(values_dict, Len(input.dict),
                                  Repeat(input.fill, Len(input.values)))
  /\ UNCHANGED <<input, err, keys, values_index, values_dict, hashes, group_bits,
                 group_seeds, level_groups, mphf, i>>

NextPack ==
  \/ Pack
  \/ Pad
  \/ Unpack

SpecPack == InitPack /\ [][NextPack]_vars

\* ------------------------------------------------------------ the claims

\* the keys the iterator yielded, and the value a key came with
Inserted == {input.iter[n][1] : n \in DOMAIN input.iter}

ValueOf(key) == (CHOOSE pair \in Range(input.iter) : pair[1] = key)[2]

\* the indices get returns for the keys of a slice, in the order of the slice
Indices(b, m, ks) == Elems([n \in 1..Len(ks) |-> Mphf_get(b, m, ks[n])])

\* every key has an index, the indices are 0..n-1, and no two keys share one
Bijective(b, m, ks) ==
  /\ \A n \in 1..Len(ks) : Indices(b, m, ks)[n] # None
  /\ {Indices(b, m, ks)[n][1] : n \in 1..Len(ks)} = 0..(Len(ks) - 1)
  /\ \A n1, n2 \in 1..Len(ks) : Indices(b, m, ks)[n1] = Indices(b, m, ks)[n2] => n1 = n2

\* C1: when Mphf::from_slice returns Ok(mphf) for a slice of n distinct keys
\* with distinct hashes and valid B, S and gamma, mphf.get gives every key of
\* the slice an index, the indices are exactly 0..n-1, and no two keys get
\* the same one.
C1_Bijection == [][FromSliceOk => Bijective(B, mphf', keys)]_vars

\* from_slice returned an Mphf of three keys that took more than one level
C1_Witness ==
  /\ pc = "reorder"
  /\ Len(keys) = 3
  /\ Len(mphf.level_groups) >= 2
  /\ Bijective(B, mphf, keys)

\* C2: after MapWithDict::from_iter_with_params succeeded on pairs with
\* distinct keys, get(k) returns Some(v) for every inserted pair (k, v) and
\* None for every key that was not inserted.
C2_GetFidelity ==
  (pc = "done" /\ query.op = "get") =>
     query.ret = IF query.key \in Inserted THEN Some(ValueOf(query.key)) ELSE None

\* get found the value of a key that construction moved, in a map of three
\* keys whose dictionary holds two values
C2_Witness ==
  /\ pc = "done" /\ query.op = "get"
  /\ Len(keys) = 3 /\ Len(values_dict) = 2
  /\ query.key \in Inserted /\ query.key # input.iter[1][1]
  /\ keys # Elems([n \in 1..Len(keys) |-> input.iter[n][1]])
  /\ query.ret = Some(ValueOf(query.key))

\* C3: for a container that was built, contains_key(k) (contains for the set)
\* is true for every inserted key and false for every other key, also when
\* the Mphf gives the other key an index below n.
C3_Membership ==
  (pc = "done" /\ query.op \in {"contains_key", "contains"}) =>
     query.ret = (query.key \in Inserted)

\* contains_key answered false for a key the Mphf maps to an index below n
C3_Witness ==
  /\ pc = "done" /\ query.op = "contains_key"
  /\ query.key \notin Inserted
  /\ Mphf_get(B, mphf, query.key) # None
  /\ Mphf_get(B, mphf, query.key)[1] < Len(keys)
  /\ query.ret = FALSE

\* C4: after MapWithDictBitpacked::from_iter_with_params succeeded on vectors
\* of one length v_len, get_values(k, buf) with a buf of length v_len returns
\* true and leaves in buf the vector inserted with k, for every inserted k,
\* and returns false for every key that was not inserted.
C4_GetValuesFidelity ==
  (pc = "done" /\ query.op = "get_values") =>
     IF query.key \in Inserted
     THEN /\ query.ret = TRUE
          /\ ~query.panicked
          /\ Len(query.buf) = Len(ValueOf(query.key))
          /\ query.values = ValueOf(query.key)
     ELSE query.ret = FALSE

\* get_values returned a vector of 34 values (two blocks) that follows
\* another one in values_dict
C4_Witness ==
  /\ pc = "done" /\ query.op = "get_values"
  /\ query.key \in Inserted
  /\ Len(query.values) = 34
  /\ query.values # query.buf
  /\ At(values_index, Mphf_get(B, mphf, query.key)[1]) > 0
  /\ query.ret = TRUE

\* what Mphf::get reads stays inside group_seeds and the bit vector, and what
\* it returns is None or below n
ProbeInRange(m, n, r) ==
  /\ r.in_range
  /\ r.ret = None \/ r.ret[1] < n
  /\ \A k \in 1..Len(r.probes) :
        /\ r.probes[k][1] < Len(m.group_seeds)
        /\ r.probes[k][2] >= 0
        /\ r.probes[k][2] < 64 * Len(m.ranked_bits.bits)

\* C5: for an Mphf built over n keys, get(key) for any key, member or not,
\* returns None or Some(idx) with idx < n, the group index it reads is below
\* the length of group_seeds and the bit it probes below the length of the bit
\* vector; the containers' unchecked reads of keys, values_index and
\* values_dict are in range.
C5_ReadsInRange ==
  /\ pc \in {"reorder", "done"} =>
        \A key \in Keys : ProbeInRange(mphf, Len(keys), Mphf_probe(B, mphf, key))
  /\ (pc = "done" /\ query.op \in {"get", "contains_key", "get_values", "contains"}) =>
        query.in_range

\* Mphf::get of an Mphf of more than one level gave an index below n to a
\* key that was not inserted
C5_Witness ==
  /\ pc = "done" /\ query.op = "Mphf::get"
  /\ query.key \notin Inserted
  /\ query.ret # None /\ query.ret[1] < Len(keys)
  /\ Len(mphf.level_groups) >= 2
  /\ ProbeInRange(mphf, Len(keys), query)

\* C6: when a container builder returns Ok, mphf.get(keys[i]) = Some(i) for
\* every position i in [0, n).
C6_KeysInPlace ==
  pc = "done" => \A n \in 1..Len(keys) : Mphf_get(B, mphf, keys[n]) = Some(n - 1)

\* a builder returned Ok after moving each of three keys
C6_Witness ==
  /\ pc = "done"
  /\ Len(keys) = 3
  /\ \A n \in 1..3 : keys[n] # input.iter[n][1]
  /\ \A n \in 1..3 : Mphf_get(B, mphf, keys[n]) = Some(n - 1)

\* whether bit idx of a bit vector is set, and how many bits before it are
BitSet(bits, idx) == (idx % 64) \in bits[(idx \div 64) + 1]

SetPositions(bits) == UNION {{64 * (k - 1) + j : j \in bits[k]} : k \in DOMAIN bits}

CountBefore(bits, idx) == Cardinality({p \in SetPositions(bits) : p < idx})

\* C7: for every i below the length of the bit vector, rank(i) returns
\* Some(c), c the number of set bits strictly before i, if bit i is set, and
\* None if bit i is clear; vectors whose length is not a multiple of 4096
\* bits included.
C7_RankOfSetBit ==
  query.op = "rank" =>
     query.ret = IF BitSet(input.bits, query.idx)
                 THEN Some(CountBefore(input.bits, query.idx))
                 ELSE None

\* rank counted the bits before a set bit of the partial second L1 block of a
\* vector of 90 words, past the second 512-bit block of that L1 block
C7_Witness ==
  /\ query.op = "rank"
  /\ Len(input.bits) = 90
  /\ query.idx >= L1_BIT_SIZE + 2 * L2_BIT_SIZE
  /\ BitSet(input.bits, query.idx)
  /\ query.ret = Some(CountBefore(input.bits, query.idx))
  /\ query.ret[1] > query.idx \div 3

\* C8 as stated: for every i of the bit-vector domain, bit i set or clear,
\* rank(i) equals the number of set bits strictly before i; for the three
\* words [0b11001010, 0b00110111, 0b11110000], rank(8) = 4 and rank(0) = 0.
C8_RankEverywhere ==
  query.op = "rank" =>
     /\ query.ret = Some(CountBefore(input.bits, query.idx))
     /\ (input.bits = ExampleBits /\ query.idx = 8) => query.ret = Some(4)
     /\ (input.bits = ExampleBits /\ query.idx = 0) => query.ret = Some(0)

\* C8 (amended): rank(i) is a count exactly when bit i is set, and the count
\* is then the number of set bits strictly before i; at a clear bit rank(i)
\* is None.  For the three words [0b11001010, 0b00110111, 0b11110000],
\* rank(0) and rank(8) are None (both bits are clear), rank(1) = Some(0),
\* rank(7) = Some(3) and rank(64) = Some(4).
C8_RankWhereSet ==
  query.op = "rank" =>
     /\ (query.ret # None) = BitSet(input.bits, query.idx)
     /\ query.ret # None => query.ret[1] = CountBefore(input.bits, query.idx)
     /\ input.bits = ExampleBits =>
          /\ query.idx \in {0, 8} => query.ret = None
          /\ query.idx = 1 => query.ret = Some(0)
          /\ query.idx = 7 => query.ret = Some(3)
          /\ query.idx = 64 => query.ret = Some(4)

\* rank(8) of the three words found bit 8 clear, with four bits set before it
C8_Witness ==
  /\ query.op = "rank"
  /\ input.bits = ExampleBits
  /\ query.idx = 8
  /\ CountBefore(input.bits, query.idx) = 4
  /\ query.ret = None

\* C9: for every sequence of u32 values, of any length (0, below 32, not a
\* multiple of 32) and any width from 0 to 32, unpack_values applied to what
\* pack_values wrote, followed by 4 * 32 zero bytes, with a buffer of the
\* length of the sequence, yields the sequence.
C9_RoundTrip ==
  query.op = "unpack_values" =>
     /\ ~query.panicked
     /\ query.res = input.values

\* 77 values of every width came back out of three blocks that follow two
\* bytes dict held before, into a buffer that held something else
C9_Witness ==
  /\ query.op = "unpack_values"
  /\ input.values = Mixed(77)
  /\ input.dict # <<>>
  /\ input.fill = U32_MAX
  /\ query.res = input.values

\* the least width that represents every value of a block
MinWidth(block) ==
  CHOOSE w \in 0..32 :
    /\ \A n \in DOMAIN block : block[n] \subseteq LowMask(w)
    /\ \A u \in 0..(w - 1) : \E n \in DOMAIN block : ~(block[n] \subseteq LowMask(u))

\* bit p of the payload of a block packed LSB-first at w bits a value
PayloadBit(block, w, p) == (p \div w) < Len(block) /\ (p % w) \in block[(p \div w) + 1]

\* byte b (0-based) of that payload
PayloadByte(block, w, b) ==
  SumTo([j \in 0..7 |-> IF PayloadBit(block, w, 8 * b + j) THEN Pow2(j) ELSE 0], 0, 7)

\* the header byte of a block and its ceil(k * w / 8) payload bytes
BlockFormat(block, w) ==
  <<w>> \o Elems([b \in 1..DivCeil(Len(block) * w, 8) |-> PayloadByte(block, w, b - 1)])

RECURSIVE PackedFormat(_)
\* the format of the successive blocks of at most 32 values
PackedFormat(values) ==
  IF values = <<>> THEN <<>>
  ELSE BlockFormat(SubSeq(values, 1, Min(32, Len(values))),
                   MinWidth(SubSeq(values, 1, Min(32, Len(values)))))
         \o PackedFormat(SubSeq(values, 33, Len(values)))

\* C10: for each successive block of k <= 32 values pack_values appends one
\* header byte w, the least width that represents the largest value of the
\* block (0 when all are 0), and then ceil(k * w / 8) payload bytes that hold
\* the k values LSB-first at w bits each; an empty input appends nothing.
\* [1..10] gives [4, 0x21, 0x43, 0x65, 0x87, 0xA9], 77 zeros give [0, 0, 0], 33
\* ones give [1, 0xFF, 0xFF, 0xFF, 0xFF, 1, 0x01].
C10_BlockFormat ==
  pc = "packed" =>
     /\ values_dict = input.dict \o PackedFormat(input.values)
     /\ input.values = <<>> => values_dict = input.dict
     /\ input.values = Ramp(10) => values_dict = input.dict \o <<4, 33, 67, 101, 135, 169>>
     /\ input.values = Repeat(U32(0), 77) => values_dict = input.dict \o <<0, 0, 0>>
     /\ input.values = Repeat(U32(1), 33) =>
          values_dict = input.dict \o <<1, 255, 255, 255, 255, 1, 1>>

\* pack_values appended the two blocks of 33 values, the second of them a
\* single value of 17 bits, to the two bytes dict held
C10_Witness ==
  /\ pc = "packed"
  /\ input.values = Spike(33, 32)
  /\ input.dict = <<9, 255>>
  /\ values_dict = <<9, 255, 0, 17, 112, 17, 1>>

\* the values of the block that starts at value number `from` (0-based)
BlockOf(values, from) == SubSeq(values, from + 1, Min(from + 32, Len(values)))

RECURSIVE BlocksLaidOut(_, _, _, _, _)
\* dict holds, from byte `at` (0-based) to its end, the blocks of the values
\* from number `from` on: for each block one byte w, its width, and then
\* ceil(block_len * w / 8) bytes, block_len being 32 for every block (whole)
\* or the number of values the block holds
BlocksLaidOut(dict, at, values, from, whole) ==
  IF from >= Len(values) THEN at = Len(dict)
  ELSE /\ at < Len(dict)
       /\ dict[at + 1] = MinWidth(BlockOf(values, from))
       /\ BlocksLaidOut(dict,
                        at + 1 + DivCeil((IF whole THEN 32 ELSE Len(BlockOf(values, from)))
                                           * dict[at + 1], 8),
                        values, from + 32, whole)

\* C11 as stated: every packed block, the last one of a vector with fewer
\* than 32 values included, is one byte holding the width w and then
\* ceil(block_len * w / 8) bytes of packed integers with block_len = 32.
C11_WholeBlocks ==
  pc = "packed" => BlocksLaidOut(values_dict, Len(input.dict), input.values, 0, TRUE)

\* C11 (amended): every packed block is one byte holding the width w and then
\* ceil(block_len * w / 8) bytes of packed integers, where block_len is the
\* number of values of the block: 32 for a full block, fewer for the last
\* block of a vector whose length is not a multiple of 32.
C11_BlocksOfTheirLength ==
  pc = "packed" => BlocksLaidOut(values_dict, Len(input.dict), input.values, 0, FALSE)

\* pack_values wrote the three blocks of 77 values of width 9: two of
\* 1 + 36 bytes and a last one, of 13 values, of 1 + 15 bytes
C11_Witness ==
  /\ pc = "packed"
  /\ input.values = Repeat(AllOnes(9), 77)
  /\ input.dict = <<>>
  /\ Len(values_dict) = 37 + 37 + 16
  /\ values_dict[75] = 9
  /\ BlocksLaidOut(values_dict, 0, input.values, 0, FALSE)

\* the parameters from_slice rejects
BadB(p) == p.B < 1 \/ p.B > 64

BadS(p) == p.S > 16

BadGamma(p) == p.gamma[1] < p.gamma[2]

BadSeedType(p) == p.S <= 16 /\ 2 ^ p.S - 1 > 2 ^ p.ST_BITS - 1

ValidationErrors ==
  {"InvalidBParameter", "InvalidSParameter", "InvalidGammaParameter", "InvalidSeedType"}

\* from_slice has been called and is past its parameter checks
Validated == pc \notin {"collect", "from_slice"} /\ err # "NotEqualValuesLengths"

\* C12: in Mphf::from_slice B outside [1, 64] yields InvalidBParameter, S > 16
\* InvalidSParameter, gamma < 1.0 InvalidGammaParameter and a seed type that
\* cannot hold 2^S - 1 InvalidSeedType; each is returned before any key is
\* hashed or any level is built, and once validation passes the only
\* possible error is MaxLevelsExceeded.  (When several parameters are out of
\* range the error names one of them.)
C12_ParameterValidation ==
  Validated =>
     /\ (err \in ValidationErrors) =
          (BadB(input.params) \/ BadS(input.params) \/ BadGamma(input.params)
             \/ BadSeedType(input.params))
     /\ err = "InvalidBParameter" => BadB(input.params)
     /\ err = "InvalidSParameter" => BadS(input.params)
     /\ err = "InvalidGammaParameter" => BadGamma(input.params)
     /\ err = "InvalidSeedType" => BadSeedType(input.params)
     /\ err \in ValidationErrors =>
          /\ pc = "failed"
          /\ hashes = <<>> /\ level_groups = <<>>
          /\ group_bits = <<>> /\ group_seeds = <<>>
     /\ err \notin ValidationErrors => err \in {"", "MaxLevelsExceeded"}

\* from_slice rejected a seed type of 8 bits for S = 9, with three keys
\* waiting and none of them hashed
C12_Witness ==
  /\ pc = "failed"
  /\ err = "InvalidSeedType"
  /\ input.params.S = 9 /\ input.params.ST_BITS = 8
  /\ Len(keys) = 3
  /\ hashes = <<>>

\* C13: Mphf::from_slice always terminates and builds at most 32 levels: it
\* returns Ok exactly when no hash remains after some level L <= 32, and
\* Err(MaxLevelsExceeded) exactly when hashes remain after the 32nd level; an
\* Mphf that was built has at most 32 levels.
C13_AtMostMaxLevels ==
  /\ [](/\ Len(level_groups) <= MAX_LEVELS
        /\ pc = "reorder" =>
             /\ hashes = <<>>
             /\ err = ""
             /\ mphf.level_groups = level_groups
             /\ Len(mphf.level_groups) <= MAX_LEVELS
        /\ (err = "MaxLevelsExceeded") =
             (pc = "failed" /\ Len(level_groups) = MAX_LEVELS /\ hashes # <<>>)
        /\ pc = "build_level" => (hashes = <<>> \/ Len(level_groups) < MAX_LEVELS))
  /\ [][/\ level_groups' # level_groups =>
             (hashes # <<>> /\ Len(level_groups') = Len(level_groups) + 1)
        /\ (pc = "build_level" /\ pc' = "reorder") => hashes = <<>>
        /\ (pc = "build_level" /\ pc' = "failed") =>
             (hashes' # <<>> /\ Len(level_groups') = MAX_LEVELS)]_vars
  /\ (pc = "from_slice") ~> (pc \in {"reorder", "failed"})

\* from_slice gave up after the 32nd level with the two hashes of a key that
\* came twice still waiting
C13_Witness ==
  /\ pc = "failed"
  /\ err = "MaxLevelsExceeded"
  /\ Len(level_groups) = 32
  /\ Len(hashes) = 2
  /\ Len(keys) = 3

\* the lengths of the vectors an iterator yields
VecLens(iter) == {Len(iter[n][2]) : n \in 1..Len(iter)}

\* C14: MapWithDictBitpacked::from_iter_with_params returns
\* Err(NotEqualValuesLengths) exactly when some vector's length differs from
\* the length of the first pair's vector; with vectors of one length (0
\* included) or no pair at all it never does, and no other constructor does.
C14_NotEqualValuesLengths ==
  pc # "collect" =>
    /\ (err = "NotEqualValuesLengths") =
         /\ input.kind = "MapWithDictBitpacked"
         /\ \E n \in 1..Len(input.iter) : Len(input.iter[n][2]) # Len(input.iter[1][2])
    /\ err = "NotEqualValuesLengths" =>
         /\ pc = "failed"
         /\ Len(input.iter[Len(keys)][2]) # Len(input.iter[1][2])
         /\ \A n \in 1..(Len(keys) - 1) : Len(input.iter[n][2]) = Len(input.iter[1][2])
    /\ (input.kind = "MapWithDictBitpacked" /\ Cardinality(VecLens(input.iter)) <= 1) =>
         err # "NotEqualValuesLengths"

\* the third vector is the first of another length
C14_Witness ==
  /\ pc = "failed"
  /\ err = "NotEqualValuesLengths"
  /\ Len(input.iter) = 3
  /\ Len(keys) = 3
  /\ Len(input.iter[1][2]) = 3
  /\ Len(input.iter[3][2]) = 0

\* the values the iterator yields, and where each comes first
InputValues == {input.iter[n][2] : n \in 1..Len(input.iter)}

FirstAt(v) == CHOOSE n \in 1..Len(input.iter) :
                /\ input.iter[n][2] = v
                /\ \A m \in 1..(n - 1) : input.iter[m][2] # v

\* C15: after MapWithDict::from_iter_with_params has collected its pairs,
\* values_dict holds every distinct input value exactly once, in the order of
\* first occurrence; its length is the number of distinct values, at most n;
\* every key's values_index entry is the place of its value, so keys inserted
\* with equal values share the entry.
C15_Deduplicated ==
  (input.kind = "MapWithDict" /\ pc # "collect") =>
    /\ Range(values_dict) = InputValues
    /\ \A a, b \in 1..Len(values_dict) : values_dict[a] = values_dict[b] => a = b
    /\ \A a, b \in 1..Len(values_dict) :
         a < b => FirstAt(values_dict[a]) < FirstAt(values_dict[b])
    /\ Len(values_dict) = Cardinality(InputValues)
    /\ Len(values_dict) <= Len(input.iter)
    /\ Len(values_index) = Len(keys)
    /\ \A n \in 1..Len(keys) :
         /\ values_index[n] < Len(values_dict)
         /\ values_dict[values_index[n] + 1] = ValueOf(keys[n])
    /\ \A n, m \in 1..Len(keys) :
         (ValueOf(keys[n]) = ValueOf(keys[m])) = (values_index[n] = values_index[m])

\* {1 -> Dog, 2 -> Cat, 3 -> Dog}: two entries, keys 1 and 3 share the first
C15_Witness ==
  /\ input.kind = "MapWithDict"
  /\ pc = "from_slice"
  /\ keys = <<1, 2, 3>>
  /\ values_dict = <<"Dog", "Cat">>
  /\ values_index = <<0, 1, 0>>

\* what every query of an empty container answers
AbsentEverywhere ==
  \A key \in Keys :
    /\ Mphf_probe(B, mphf, key) = [ret |-> None, probes |-> <<>>, in_range |-> TRUE]
    /\ input.kind = "MapWithDict" =>
         MapWithDict_get(key) = [ret |-> None, in_range |-> TRUE]
    /\ input.kind \in {"MapWithDict", "MapWithDictBitpacked"} =>
         MapWithDict_contains_key(key) = [ret |-> FALSE, in_range |-> TRUE]
    /\ input.kind = "MapWithDictBitpacked" =>
         \A buf \in Buffers \cup {<<U32(9)>>} :
           MapWithDictBitpacked_get_values(key, buf) =
             [ret |-> FALSE, values |-> buf, in_range |-> TRUE, panicked |-> FALSE]

\* C16: from an empty input, construction of the MPHF and of every container
\* succeeds (the parameters being valid) with zero levels, len() = 0 and
\* is_empty(), and every query for any key finds nothing and reads no array.
C16_EmptyKeySet ==
  (input.iter = <<>> /\ input.kind \in {"MapWithDict", "MapWithDictBitpacked"}) =>
    /\ err \in {"", ParamError(input.params)}
    /\ (pc = "failed") = (err # "")
    /\ ParamError(input.params) = "" => pc # "failed"
    /\ pc \in {"reorder", "done"} =>
         /\ mphf.level_groups = <<>>
         /\ mphf.group_seeds = <<>>
         /\ mphf.ranked_bits.bits = <<>>
         /\ MapWithDict_len = 0
         /\ MapWithDict_is_empty
         /\ AbsentEverywhere
    /\ query # NoQuery =>
         /\ query.ret = IF query.op \in {"Mphf::get", "get"} THEN None ELSE FALSE
         /\ query.in_range

\* get_values of the empty bit-packed map
C16_Witness ==
  /\ input.iter = <<>>
  /\ input.kind = "MapWithDictBitpacked"
  /\ pc = "done"
  /\ mphf.level_groups = <<>>
  /\ MapWithDict_is_empty
  /\ query # NoQuery
  /\ query.op = "get_values"
  /\ query.ret = FALSE

\* where the packed vectors end and the padding begins
PaddingFrom == Len(values_dict) - 4 * VALUES_BLOCK_LEN

\* the decoding of the vector stored for keys[n] into a buffer of length v_len
Decoded(n) == unpack_values(values_dict, values_index[n], Repeat(U32(9), FirstLen(input.iter)))

\* C17: values_dict of the bit-packed map ends with 4 * 32 zero bytes that
\* follow all packed vectors, and decoding any stored vector (the last of the
\* dictionary included) into a buffer of length v_len reads only bytes below
\* the length of values_dict, although the window of a block reaches beyond
\* the bytes of that block.
C17_PaddedDecode ==
  (/\ input.kind = "MapWithDictBitpacked"
   /\ pc # "collect"
   /\ err # "NotEqualValuesLengths"
   /\ query = NoQuery) =>
    /\ PaddingFrom >= 0
    /\ \A at \in (PaddingFrom + 1)..Len(values_dict) : values_dict[at] = 0
    /\ Len(values_index) = Len(keys)
    /\ \A n \in 1..Len(keys) :
         values_index[n] + Len(pack_values(ValueOf(keys[n]), <<>>)) <= PaddingFrom
    /\ keys # <<>> =>
         \E n \in 1..Len(keys) :
           values_index[n] + Len(pack_values(ValueOf(keys[n]), <<>>)) = PaddingFrom
    /\ \A n \in 1..Len(keys) :
         /\ ~Decoded(n).panicked
         /\ Decoded(n).reads <= Len(values_dict)
         /\ Decoded(n).res = ValueOf(keys[n])

\* the last vector of the dictionary ends with a block of two 32-bit values:
\* its 8 bytes are decoded through a window of 128 bytes that ends 8 bytes
\* before the end of values_dict
C17_Witness ==
  /\ input.kind = "MapWithDictBitpacked"
  /\ pc = "done"
  /\ query = NoQuery
  /\ Len(keys) = 3
  /\ \E n \in 1..Len(keys) :
       /\ Len(ValueOf(keys[n])) = 34
       /\ values_index[n] + Len(pack_values(ValueOf(keys[n]), <<>>)) = PaddingFrom
       /\ Decoded(n).reads = Len(values_dict) - 8
       /\ Decoded(n).res = ValueOf(keys[n])

\* the number of set bits at positions lo .. hi - 1
CountIn(bits, lo, hi) == Cardinality({p \in SetPositions(bits) : lo <= p /\ p < hi})

\* the low 44 bits of an entry, and its 12-bit field number j
Low44(entry) == NatOfBits(entry \cap LowMask(44))

Field(entry, j) == NatOfBits(Shr(entry, 44 + 12 * j) \cap LowMask(12))

\* sub-block j of L1 block k (both 0-based) holds at least one word
SubBlockPresent(bits, k, j) == 64 * k + 8 * j < Len(bits)

\* C18: after RankedBits::new there is one 128-bit entry for each started L1
\* block of 4096 bits; the low 44 bits of entry 0 are 0 and those of entry
\* i + 1 are those of entry i plus the popcount of L1 block i; field j (of
\* the seven 12-bit fields at offsets 44 + 12 * j) holds the number of set
\* bits of sub-blocks 0..j of the block, stays below 2^12 and so inside its
\* own bits; fields of sub-blocks absent from a trailing partial block are 0.
C18_RankIndex ==
  (pc = "ranked" /\ query = NoQuery) =>
    /\ mphf.ranked_bits.bits = input.bits
    /\ Len(mphf.ranked_bits.l12_ranks) = DivCeil(Len(input.bits), 64)
    /\ \A k \in 0..(Len(mphf.ranked_bits.l12_ranks) - 1) :
         /\ At(mphf.ranked_bits.l12_ranks, k) \subseteq 0..127
         /\ Low44(At(mphf.ranked_bits.l12_ranks, k)) = CountIn(input.bits, 0, L1_BIT_SIZE * k)
         /\ k > 0 =>
              Low44(At(mphf.ranked_bits.l12_ranks, k)) =
                Low44(At(mphf.ranked_bits.l12_ranks, k - 1))
                  + CountIn(input.bits, L1_BIT_SIZE * (k - 1), L1_BIT_SIZE * k)
         /\ \A j \in 0..6 :
              /\ CountIn(input.bits, L1_BIT_SIZE * k, L1_BIT_SIZE * k + L2_BIT_SIZE * (j + 1)) < 2 ^ 12
              /\ Field(At(mphf.ranked_bits.l12_ranks, k), j) =
                   IF SubBlockPresent(input.bits, k, j)
                   THEN CountIn(input.bits, L1_BIT_SIZE * k, L1_BIT_SIZE * k + L2_BIT_SIZE * (j + 1))
                   ELSE 0

\* 130 words of ones: two full L1 blocks and two words of a third; the third
\* entry starts from 8192 and its first field counts the 128 bits present
C18_Witness ==
  /\ pc = "ranked"
  /\ query = NoQuery
  /\ Len(input.bits) = 130
  /\ Len(mphf.ranked_bits.l12_ranks) = 3
  /\ Low44(mphf.ranked_bits.l12_ranks[3]) = 2 * L1_BIT_SIZE
  /\ Field(mphf.ranked_bits.l12_ranks[2], 6) = 7 * L2_BIT_SIZE
  /\ Field(mphf.ranked_bits.l12_ranks[3], 0) = 128
  /\ Field(mphf.ranked_bits.l12_ranks[3], 1) = 0

\* C19 as stated: in every entry of the rank index each of the seven 12-bit
\* L2 fields is at most 512, and the fields do not decrease from the one at
\* offset 44 to the one at offset 116.
C19_FieldsAtMost512 ==
  (pc = "ranked" /\ query = NoQuery) =>
    \A k \in 0..(Len(mphf.ranked_bits.l12_ranks) - 1) :
      /\ \A j \in 0..6 : Field(At(mphf.ranked_bits.l12_ranks, k), j) <= L2_BIT_SIZE
      /\ \A j \in 0..5 :
           Field(At(mphf.ranked_bits.l12_ranks, k), j) <=
             Field(At(mphf.ranked_bits.l12_ranks, k), j + 1)

\* C19: field j of an entry (j = 0..6) is a running count, at most
\* 512 * (j + 1); the fields do not decrease over the sub-blocks the L1 block
\* holds; the fields of sub-blocks absent from a trailing partial block are 0.
C19_FieldsRunningCount ==
  (pc = "ranked" /\ query = NoQuery) =>
    \A k \in 0..(Len(mphf.ranked_bits.l12_ranks) - 1) :
      /\ \A j \in 0..6 :
           /\ Field(At(mphf.ranked_bits.l12_ranks, k), j) <= L2_BIT_SIZE * (j + 1)
           /\ ~SubBlockPresent(input.bits, k, j) =>
                Field(At(mphf.ranked_bits.l12_ranks, k), j) = 0
      /\ \A j \in 0..5 :
           SubBlockPresent(input.bits, k, j + 1) =>
             Field(At(mphf.ranked_bits.l12_ranks, k), j) <=
               Field(At(mphf.ranked_bits.l12_ranks, k), j + 1)

\* 90 words of ones: the first entry counts up to 3584, the second holds
\* 1664 for its fourth sub-block (two words of it exist) and 0 after it
C19_Witness ==
  /\ pc = "ranked"
  /\ query = NoQuery
  /\ Len(input.bits) = 90
  /\ Field(mphf.ranked_bits.l12_ranks[1], 6) = 7 * L2_BIT_SIZE
  /\ Field(mphf.ranked_bits.l12_ranks[2], 3) = 3 * L2_BIT_SIZE + 128
  /\ Field(mphf.ranked_bits.l12_ranks[2], 4) = 0

\* the bit each hash falls on, in the window of the group of its level hash,
\* under `seed`
Positions(b, level, groups, hs, seed) ==
  Elems([k \in 1..Len(hs) |->
     bit_index_for_seed(b, hash_with_seed(hs[k], level), seed,
                        fastmod32(Resize(hash_with_seed(hs[k], level), 4), groups))])

\* Positions under each of the seeds 0 .. max_group_seed - 1
SeedPositions(b, level, groups, hs, max_group_seed) ==
  Elems([n \in 1..max_group_seed |-> Positions(b, level, groups, hs, n - 1)])

\* the bits of the window of group g (0 .. b - 1) that exactly one hash falls on
HitsOnce(pos, b, g) ==
  {p \in 0..(b - 1) : Cardinality({k \in DOMAIN pos : pos[k] = g * b + p}) = 1}

\* the window of group g in the words of the best plane
BestWindow(best_group_bits, b, g) ==
  {p \in 0..(b - 1) : ~BitClear(best_group_bits, g * b + p)}

\* the best plane while the seeds are tried (bufs) and of the level returned
BestPlane(at, bufs) == IF at = "seeds" THEN BestGroupBits(bufs) ELSE bufs

\* for every group g the window is what seed best_group_seeds[g] gives, no
\* seed tried so far gives more ones, and no smaller seed gives as many
BestOfTried(b, tried, plane, seeds, pos) ==
  /\ plane \in Seq(SUBSET (0..63))
  /\ \A g \in 0..(Len(seeds) - 1) :
       /\ At(seeds, g) < IF tried = 0 THEN 1 ELSE tried
       /\ BestWindow(plane, b, g) =
            IF tried = 0 THEN {} ELSE HitsOnce(pos[At(seeds, g) + 1], b, g)
       /\ \A seed \in 0..(tried - 1) :
            Cardinality(HitsOnce(pos[seed + 1], b, g)) <= Cardinality(BestWindow(plane, b, g))
       /\ \A seed \in 0..(At(seeds, g) - 1) :
            Cardinality(HitsOnce(pos[seed + 1], b, g)) < Cardinality(BestWindow(plane, b, g))

\* C20: for every group g, once all 2^S seeds have been tried (and after each
\* of them), the B-bit window of g in the best plane is exactly the set of
\* bits that exactly one remaining hash of group g falls on under the seed
\* best_group_seeds[g]; that seed gives the most collision-free bits of all
\* seeds tried and is the smallest that does; and the popcount of the window
\* never decreases from one seed to the next.  Groups whose window lies on
\* two 64-bit segments (B = 24, B = 7) are included.
C20_SeedSelection ==
  /\ [](/\ Len(group_seeds) = LevelGroups(input)[1]
        /\ pc = "level" => i = Pow2(S)
        /\ BestOfTried(B, i, BestPlane(pc, group_bits), group_seeds,
                       SeedPositions(B, input.level, Len(group_seeds), input.hashes, Pow2(S))))
  /\ [][\A g \in 0..(Len(group_seeds) - 1) :
          Cardinality(BestWindow(BestPlane(pc', group_bits'), B, g)) >=
            Cardinality(BestWindow(BestPlane(pc, group_bits), B, g))]_vars

\* B = 24, S = 2, the hashes 1, 723 and 15284: the window of group 2 lies on
\* bits 48..71; seed 0 puts the three hashes on one bit, seed 1 two of them,
\* seeds 2 and 3 none, and seed 2 is recorded with the bits 53, 58 and 69
C20_Witness ==
  /\ pc = "level"
  /\ B = 24
  /\ S = 2
  /\ input.level = 0
  /\ Len(input.hashes) = 3
  /\ At(group_seeds, 2) = 2
  /\ BestWindow(group_bits, B, 2) = {5, 10, 21}
  /\ HitsOnce(Positions(B, 0, 8, input.hashes, 0), B, 2) = {}
  /\ Cardinality(HitsOnce(Positions(B, 0, 8, input.hashes, 1), B, 2)) = 1
  /\ Cardinality(HitsOnce(Positions(B, 0, 8, input.hashes, 3), B, 2)) = 3

\* the bit of the level each hash falls on under the recorded seed of its group
BestPositions(b, level, seeds, hs) ==
  Elems([k \in 1..Len(hs) |->
     bit_index_for_seed(b, hash_with_seed(hs[k], level),
                        At(seeds, fastmod32(Resize(hash_with_seed(hs[k], level), 4), Len(seeds))),
                        fastmod32(Resize(hash_with_seed(hs[k], level), 4), Len(seeds)))])

RECURSIVE OnClearBits(_, _, _, _)
\* the hashes of hs, from number k on, whose position is a clear bit of bits
OnClearBits(hs, pos, bits, k) ==
  IF k > Len(hs) THEN <<>>
  ELSE (IF BitSet(bits, pos[k]) THEN <<>> ELSE <<hs[k]>>) \o OnClearBits(hs, pos, bits, k + 1)

\* a level with output bits and seeds, built from the hashes hs, left `kept`
Peeled(hs, kept, bits, pos) ==
  /\ \A k \in 1..Len(hs) : pos[k] < 64 * Len(bits)
  /\ kept = OnClearBits(hs, pos, bits, 1)
  /\ \A p \in SetPositions(bits) :
       Cardinality({k \in 1..Len(hs) : pos[k] = p /\ BitSet(bits, pos[k])}) = 1
  /\ \A k \in 1..Len(hs) :
       (\E n \in 1..Len(kept) : kept[n] = hs[k]) = ~BitSet(bits, pos[k])

\* what Mphf::get finds for a hash in the levels built so far
ProbeBuilt(b, bits, groups, seeds, hash) ==
  MphfProbe(b, [ranked_bits |-> RankedBits_new(bits), level_groups |-> groups,
                group_seeds |-> seeds], hash, 0, 0, <<>>)

\* a hash that remains passes through every level built without a hit, a
\* hash that was removed is found
PassThrough(r, remains, levels) ==
  /\ r.in_range
  /\ (r.ret = None) = remains
  /\ remains => Len(r.probes) = levels

\* C21: when a level has been built, a hash is removed from the remaining
\* ones exactly if the bit it falls on under the recorded seed of its group
\* is set in the output of the level; every set bit of the output is the bit
\* of exactly one removed hash; a hash that remains falls on a clear bit, and
\* Mphf::get for it passes through the levels built without a hit.
C21_LevelPeeling ==
  /\ [][level_groups' # level_groups =>
          Peeled(hashes, hashes',
                 Slice(group_bits', Len(group_bits), Len(group_bits')),
                 BestPositions(B, Len(level_groups),
                               Slice(group_seeds', Len(group_seeds), Len(group_seeds')),
                               hashes))]_vars
  /\ []((pc = "build_level" \/ err = "MaxLevelsExceeded") =>
          \A k \in 1..Len(keys) :
            PassThrough(ProbeBuilt(B, group_bits, level_groups, group_seeds, hash_key(keys[k])),
                        \E n \in 1..Len(hashes) : hashes[n] = hash_key(keys[k]),
                        Len(level_groups)))

\* B = 64, three distinct keys: one hash was removed by the first level, the
\* hashes of keys 2 and 3 fell on one bit at the first two levels and remain
C21_Witness ==
  /\ pc = "build_level"
  /\ B = 64
  /\ Len(level_groups) = 2
  /\ keys = <<1, 2, 3>>
  /\ hashes = <<hash_key(2), hash_key(3)>>
  /\ ProbeBuilt(B, group_bits, level_groups, group_seeds, hash_key(1)).ret # None
  /\ Len(ProbeBuilt(B, group_bits, level_groups, group_seeds, hash_key(2)).probes) = 2

\* the positions whose key is where mphf.get sends it
InPlace(ks) == {n \in 1..Len(ks) : Mphf_get(B, mphf, ks[n]) = Some(n - 1)}

\* the (key, values_index) pairs held
PairsHeld(ks, vi) == {<<ks[n], vi[n]>> : n \in 1..Len(ks)}

\* C22: in the re-ordering loop of the container builders mphf.get never
\* returns None for a held key; a turn either finds keys[i] in place and moves
\* on, or swaps keys[i] and its values_index entry with those at idx, which
\* puts one more key in place for good; so there are at most n swaps, the
\* loop ends, and the (key, values_index) pairs are those it started with.
C22_CycleSort ==
  /\ [](input.kind # "Set" =>
          /\ err # "panic"
          /\ pc = "reorder" =>
               /\ i <= Len(keys)
               /\ Len(values_index) = Len(keys)
               /\ 1..i \subseteq InPlace(keys)
               /\ Cardinality(InPlace(keys)) <= Len(keys))
  /\ [][(pc = "reorder" /\ pc' = "reorder" /\ input.kind # "Set") =>
          /\ PairsHeld(keys', values_index') = PairsHeld(keys, values_index)
          /\ Len(keys') = Len(keys)
          /\ InPlace(keys) \subseteq InPlace(keys')
          /\ IF keys' = keys
             THEN i' = i + 1 /\ values_index' = values_index
             ELSE /\ i' = i
                  /\ Cardinality(InPlace(keys')) > Cardinality(InPlace(keys))
                  /\ \E idx \in 0..(Len(keys) - 1) :
                       /\ keys' = Swap(keys, i, idx)
                       /\ values_index' = Swap(values_index, i, idx)]_vars

\* a swap has been made and the key now at position 0 is not in place
\* either: the cycle through position 0 has three keys
C22_Witness ==
  /\ pc = "reorder"
  /\ input.kind = "MapWithDictBitpacked"
  /\ i = 0
  /\ Len(keys) = 3
  /\ keys[1] # input.iter[1][1]
  /\ Cardinality(InPlace(keys)) = 1
  /\ PairsHeld(keys, values_index) # {}

\* the least common multiple of 64 and b, found by trying the multiples of 64
Lcm64(b) ==
  64 * (CHOOSE k \in 1..b : (64 * k) % b = 0 /\ \A j \in 1..(k - 1) : (64 * j) % b # 0)

\* adjusted is the smallest multiple of lcm that is at least `least`
SmallestMultiple(adjusted, lcm, least) ==
  /\ adjusted % lcm = 0
  /\ adjusted >= least
  /\ adjusted - lcm < least

\* C23: for a level built from m >= 1 hashes, adjusted_size is the smallest
\* multiple of lcm(64, B) that is at least ceil(m * gamma); the level has
\* groups = adjusted_size / B seeds and segments = adjusted_size / 64 words,
\* so groups >= 1 and groups * B = segments * 64.
C23_LevelSizing ==
  pc = "sized" =>
    /\ level_groups[1] >= 1
    /\ level_groups[1] * B = level_groups[2] * 64
    /\ SmallestMultiple(level_groups[1] * B, Lcm64(B),
                        DivCeil(input.len * input.params.gamma[1], input.params.gamma[2]))

\* 2^24 + 1 hashes, gamma = 1.0, B = 64: the level has 2^24 bits, fewer than
\* it has hashes
C23_Witness ==
  /\ pc = "sized"
  /\ input.len = 16777217
  /\ input.params.gamma = <<1, 1>>
  /\ B = 64
  /\ level_groups[1] * B = 16777216
  /\ level_groups[1] * B < input.len

\* the last <<group_idx, bit_idx>> that get read for the hash
LastProbe(r) == r.probes[Len(r.probes)]

\* get, over the levels built, finds the k-th hash at the level just built:
\* in a group of that level, at the bit the construction set for it
AddressedAt(r, first_group, groups, first_bit, pos) ==
  /\ r.in_range
  /\ r.ret # None
  /\ Len(r.probes) = Len(level_groups')
  /\ LastProbe(r)[1] \in first_group..(first_group + groups - 1)
  /\ LastProbe(r)[2] \in (B * LastProbe(r)[1])..(B * (LastProbe(r)[1] + 1) - 1)
  /\ LastProbe(r)[2] = first_bit + pos
  /\ BitSet(group_bits', LastProbe(r)[2])

\* the level just built lies at the bits [B * G_l, B * (G_l + groups))
LevelLaidOut(first_group, groups, pos) ==
  /\ 64 * Len(group_bits) = B * first_group
  /\ 64 * Len(group_bits') = B * (first_group + groups)
  /\ Len(group_seeds') = first_group + groups
  /\ Slice(group_bits', 0, Len(group_bits)) = group_bits
  /\ \A k \in 1..Len(hashes) :
       (\A n \in 1..Len(hashes') : hashes'[n] # hashes[k]) =>
         AddressedAt(ProbeBuilt(B, group_bits', level_groups', group_seeds', hashes[k]),
                     first_group, groups, B * first_group, pos[k])

\* C24: the bit vector has L = B * total_groups bits, total_groups being the
\* sum of level_groups and the length of group_seeds; level l occupies the
\* bits [B * G_l, B * (G_l + level_groups[l])), G_l the groups of the levels
\* before, and the bit index get computes from the global group index is the
\* bit the construction set at that level.
C24_LevelLayout ==
  /\ [](pc \in {"build_level", "reorder", "failed"} /\ err \in {"", "MaxLevelsExceeded"} =>
         /\ 64 * Len(group_bits) = B * Len(group_seeds)
         /\ SumTo(level_groups, 1, Len(level_groups)) = Len(group_seeds)
         /\ pc = "reorder" =>
              /\ mphf.ranked_bits.bits = group_bits
              /\ mphf.level_groups = level_groups
              /\ mphf.group_seeds = group_seeds)
  /\ [][level_groups' # level_groups =>
          LevelLaidOut(SumTo(level_groups, 1, Len(level_groups)),
                       level_groups'[Len(level_groups')],
                       BestPositions(B, Len(level_groups),
                                     Slice(group_seeds', Len(group_seeds), Len(group_seeds')),
                                     hashes))]_vars

\* a key found at the second level, in a group after those of the first
C24_Witness ==
  /\ pc = "reorder"
  /\ B = 64
  /\ Len(level_groups) >= 2
  /\ \E k \in 1..Len(keys) :
       /\ Len(Mphf_probe(B, mphf, keys[k]).probes) = 2
       /\ Mphf_probe(B, mphf, keys[k]).ret # None
       /\ LastProbe(Mphf_probe(B, mphf, keys[k]))[1] >= level_groups[1]
       /\ LastProbe(Mphf_probe(B, mphf, keys[k]))[2] >= B * level_groups[1]

\* C25: while update_group_bits_with_seed runs, every word of the working
\* buffer read or written has an index below 3 * segments, the length of the
\* buffer, for every group of the level.
C25_WordsInBuffer ==
  (pc = "seeds" /\ i >= 1) =>
    \A g \in 0..(Len(group_seeds) - 1) :
      \A w \in GroupWordsRead(B, g) \cup GroupWordsWritten(B, g) : w < Len(group_bits)

\* B = 64, seed 0 tried: the last group took the bits of seed 0, so bits[2]
\* and bits[5] were stored for it, and bits[5] is two words past the buffer
C25_Witness ==
  /\ pc = "seeds"
  /\ i = 1
  /\ B = 64
  /\ Len(group_bits) = 3 * ((Len(group_seeds) * B) \div 64)
  /\ BestWindow(BestGroupBits(group_bits), B, Len(group_seeds) - 1) # {}
  /\ \E w \in GroupWordsWritten(B, Len(group_seeds) - 1) : w = Len(group_bits) + 2
  /\ \E w \in GroupWordsRead(B, Len(group_seeds) - 1) : w = Len(group_bits)

\* the hashes that two entries of the input share
SharedHashes(it) ==
  {hash_key(it[j][1]) : j \in {n \in 1..Len(it) : \E k \in 1..Len(it) : k # n /\ it[k][1] = it[n][1]}}

\* each hash of hs is at least twice in `among`
StillTwice(hs, among) ==
  \A h \in hs : Cardinality({n \in 1..Len(among) : among[n] = h}) >= 2

\* C26: when two keys of the input have the same hash (the same key twice),
\* those hashes collide at every level under every seed and are never removed,
\* so Mphf::from_slice returns Err(MaxLevelsExceeded) after 32 levels; the
\* container builders return that error and never enter the re-ordering loop.
C26_DuplicateKeys ==
  SharedHashes(input.iter) # {} =>
    /\ pc \notin {"reorder", "done"}
    /\ mphf = NoMphf
    /\ i = 0
    /\ pc = "build_level" =>
         /\ Len(level_groups) < MAX_LEVELS
         /\ StillTwice(SharedHashes(input.iter), hashes)
    /\ (pc = "failed" /\ input.params \in ValidParams /\ err # "NotEqualValuesLengths") =>
         /\ err = "MaxLevelsExceeded"
         /\ Len(level_groups) = MAX_LEVELS
         /\ StillTwice(SharedHashes(input.iter), hashes)

\* keys 2, 5, 2 given to MapWithDict: 5 is placed, the two hashes of 2 are
\* left after 32 levels and the builder fails
C26_Witness ==
  /\ pc = "failed"
  /\ err = "MaxLevelsExceeded"
  /\ input.kind = "MapWithDict"
  /\ keys = <<2, 5, 2>>
  /\ Len(level_groups) = MAX_LEVELS
  /\ hashes = <<hash_key(2), hash_key(2)>>
  /\ mphf = NoMphf

\* C27: in rank, for an index in the first L2 sub-block of an L1 block
\* (l2_pos = 0) the l2_rank term (entry >> 32) & 0xFFF is 0 for every l1_rank
\* that fits the 44-bit field, so the result is l1_rank + block_rank +
\* word_rank, the number of set bits before the index.
C27_FirstSubBlock ==
  (pc = "ranked" /\ query # NoQuery /\ (query.idx % L1_BIT_SIZE) \div L2_BIT_SIZE = 0) =>
    /\ L2RankBits(At(mphf.ranked_bits.l12_ranks, query.idx \div L1_BIT_SIZE), 0) = {}
    /\ query.ret # None =>
         query.ret = Some(Add128(input.l1_rank,
                                 BitsOfNat(CountBefore(input.bits, query.idx))))

\* 2^32 set bits before the block, rank of its first bit: l2_rank is 1 and
\* the rank returned is 2^32 + 1
C27_Witness ==
  /\ pc = "ranked"
  /\ input.l1_rank = {32}
  /\ query # NoQuery
  /\ query.idx = 0
  /\ 0 \in input.bits[1]
  /\ L2RankBits(mphf.ranked_bits.l12_ranks[1], 0) = {0}
  /\ query.ret = Some({0, 32})

\* C28: after a successful Mphf::from_slice over n keys the bit vector has
\* exactly n set bits, and each level contributes as many set bits as hashes
\* were removed at that level.
C28_SetBitsAreKeys ==
  /\ [](pc = "build_level" => PopCount(group_bits) + Len(hashes) = Len(keys))
  /\ [](pc = "reorder" =>
         /\ PopCount(mphf.ranked_bits.bits) = Len(keys)
         /\ Cardinality(SetPositions(mphf.ranked_bits.bits)) = Len(keys))
  /\ [][level_groups' # level_groups =>
          /\ Slice(group_bits', 0, Len(group_bits)) = group_bits
          /\ PopCount(Slice(group_bits', Len(group_bits), Len(group_bits')))
               = Len(hashes) - Len(hashes')]_vars

\* three keys placed over three levels or more: the first level has one set
\* bit, the later ones the other two
C28_Witness ==
  /\ pc = "reorder"
  /\ Len(keys) = 3
  /\ Len(mphf.level_groups) >= 3
  /\ PopCount(mphf.ranked_bits.bits) = 3
  /\ PopCount(Slice(mphf.ranked_bits.bits, 0, (B * mphf.level_groups[1]) \div 64)) = 1

\* the keys in the order the input iterator yields them
InputKeys == Elems([n \in 1..Len(input.iter) |-> input.iter[n][1]])

\* the orderings of a sequence of distinct keys
Orderings(ks) ==
  {Elems(p) : p \in {q \in [1..Len(ks) -> Range(ks)] : Range(q) = Range(ks)}}

\* the Mphf built from the keys in the order p, whatever lies past the buffers
BuiltFrom(p, m) ==
  \A oob \in OobWords :
    Mphf_from_slice(B, S, input.params.gamma, p, oob) = [err |-> "", mphf |-> m]

\* C29: for any two orderings of the same distinct keys and the same B, S
\* and gamma, Mphf::from_slice gives the same result (outcome, bit vector,
\* level_groups, group_seeds), so get is the same for every key, and the
\* final keys array of a container does not depend on the order of the input.
C29_OrderIndependent ==
  []((SharedHashes(input.iter) = {} /\ query = NoQuery) =>
       /\ (pc = "reorder" /\ i = 0 /\ keys = InputKeys /\ input.kind = "MapWithDict") =>
            \A p \in Orderings(keys) : BuiltFrom(p, mphf)
       /\ pc = "done" =>
            /\ Range(keys) = Range(InputKeys)
            /\ Mphf_from_slice(B, S, input.params.gamma, Ascending(Range(InputKeys)), {}).mphf
                 = mphf
            /\ \A n \in 1..Len(keys) : Mphf_get(B, mphf, keys[n]) = Some(n - 1))

\* keys 3, 2, 1 given in descending order: the Mphf is the one of 1, 2, 3 and
\* of 2, 3, 1, and the keys array ends in an order that is neither
C29_Witness ==
  /\ pc = "done"
  /\ query = NoQuery
  /\ Len(keys) = 3
  /\ InputKeys = Reverse(Ascending(Range(keys)))
  /\ keys # Ascending(Range(keys))
  /\ keys # Reverse(Ascending(Range(keys)))
  /\ Len(mphf.level_groups) >= 2
  /\ BuiltFrom(Ascending(Range(keys)), mphf)
  /\ BuiltFrom(keys, mphf)

\* the container of a finished build
Container == <<mphf, keys, values_index, values_dict>>

\* C30: queries do not modify state: get, contains_key, len, is_empty and
\* get_values leave the container (mphf, keys, values_index, values_dict)
\* unchanged, and when get_values returns false (the MPHF misses or the stored
\* key differs) the caller's buffer is left exactly as it was passed in.
C30_QueriesLeaveState ==
  /\ [][(pc = "done" /\ query' # query) =>
          /\ Container' = Container
          /\ MapWithDict_len' = MapWithDict_len
          /\ MapWithDict_is_empty' = MapWithDict_is_empty
          /\ pc' = "done"]_vars
  /\ []((pc = "done" /\ query.op = "get_values" /\ ~query.panicked /\ query.ret = FALSE) =>
         /\ query.values = query.buf
         /\ \/ Mphf_get(B, mphf, query.key) = None
            \/ At(keys, Mphf_get(B, mphf, query.key)[1]) # query.key)

\* get_values for a key that is not held, which the MPHF maps to the index
\* of another key: false, and the buffer of three values as it was
C30_Witness ==
  /\ pc = "done"
  /\ query.op = "get_values"
  /\ query.ret = FALSE
  /\ Mphf_get(B, mphf, query.key) # None
  /\ At(keys, Mphf_get(B, mphf, query.key)[1]) # query.key
  /\ Len(query.buf) = 3
  /\ query.values = query.buf
  /\ MapWithDict_len = Len(keys)
  /\ ~MapWithDict_is_empty

====
